---- MODULE Spec2Model ----
(***************************************************************************)
(* A model of game_render_engine.py: the curve evaluator, the instance     *)
(* deltas, RenderedInstance.update and the RenderEngine registries, tick   *)
(* task and mutating entry points.                                         *)
(*                                                                         *)
(* Python objects are compared by identity (Curve, Instance and            *)
(* RenderedInstance define no __eq__): a curve object is named by a key of *)
(* Curves, an instance object by a key of Instances, and a rendered        *)
(* instance by <<o, n>>: the n-th RenderedInstance constructed for the     *)
(* instance object o.                                                      *)
(***************************************************************************)
EXTENDS Integers, Sequences, FiniteSets, TLC

None == "None"

\* ---------------------------------------------------------------- bounds
\* utc_now never exceeds MaxTime (ticks stop there)
MaxTime == 2
\* at most MaxRendered RenderedInstance objects are ever constructed
MaxRendered == 2
\* an instance's parallel_curves list never grows beyond MaxCurves entries
MaxCurves == 2

\* ------------------------------------------------------- small utilities
Range(s) == {s[k] : k \in 1..Len(s)}

Min(x, y) == IF x <= y THEN x ELSE y

\* every ordering of a finite set: the orders a Python set can be iterated in
Orders(S) ==
  {o \in [1..Cardinality(S) -> S] : \A x \in S : \E k \in 1..Cardinality(S) : o[k] = x}

\* the empty dict
EmptyDict == [x \in {} |-> None]

\* a dict after d[k] = v
DictSet(d, k, v) == [x \in DOMAIN d \cup {k} |-> IF x = k THEN v ELSE d[x]]

\* a dict after del d[k]
DictDel(d, k) == [x \in DOMAIN d \ {k} |-> d[x]]

\* list.remove(x): the first occurrence of x is taken out of the list
RECURSIVE ListRemove(_, _)
ListRemove(list, x) ==
  IF list = <<>> THEN <<>>
  ELSE IF Head(list) = x THEN Tail(list)
  ELSE <<Head(list)>> \o ListRemove(Tail(list), x)

\* ---------------------------------------------------------------- numbers
\* The numbers of the channels (Python floats) are modelled as rationals:
\* <<numerator, denominator>> in lowest terms, the denominator positive.
Abs(i) == IF i < 0 THEN 0 - i ELSE i

RECURSIVE GCD(_, _)
GCD(a, b) == IF b = 0 THEN a ELSE GCD(b, a % b)

Rat(n, d) == LET g == GCD(Abs(n), d) IN <<n \div g, d \div g>>

RatOf(i) == <<i, 1>>

RatAdd(p, q) ==
  LET l == (p[2] \div GCD(p[2], q[2])) * q[2]
  IN Rat(p[1] * (l \div p[2]) + q[1] * (l \div q[2]), l)

RatMul(p, q) == Rat(p[1] * q[1], p[2] * q[2])

\* p / f for an integer f > 0
RatDiv(p, f) == Rat(p[1], p[2] * f)

\* ------------------------------------------------------------ enumerations
EventTypeEnum == {"collision", "curve_completed", "key", "mouse_moved"}

InstanceTypeEnum == {"model", "text", "image", "camera"}

InstanceDeltaTypeEnum == {"append_parallel_curves", "set_parallel_curves", "set_text"}

\* ---------------------------------------------------- the curve objects
\* The Curve objects the callers hand to the engine.  Curves are immutable.
\*   c1  completes one second after its start, asks for the completion event
\*   c2  has effective_time_seconds = 0 (expires at once), flags clear of removal
\*   c3  completes after two seconds and asks for the removal of its instance
\*   c4  expires at once as well, and asks for the removal of its instance
\*   c5  has one position term (the curve of the model test, three seconds
\*       long) and short tables for the other channels
\*   c6  has twelve terms in every channel, as many as there are cached
\*       factorials
\*   c7  has thirteen terms in its position, scale and opacity channels and
\*       fourteen in its rotation channel, more than there are cached
\*       factorials
\* c5, c6 and c7 are the curves of the evaluations below (SpecEval) only.
Curves ==
  [ c1 |-> [ curve_uuid |-> "u1",
             position_deltas |-> << <<0, 5, -1>> >>,
             rotation_deltas |-> <<>>,
             scale_deltas |-> <<>>,
             opacity_deltas |-> <<>>,
             effective_time_seconds |-> 1,
             is_controller_event_triggered_on_completed |-> TRUE,
             start_datetime |-> 0,
             is_instance_removed_on_curve_completed |-> FALSE ],
    c2 |-> [ curve_uuid |-> "u2",
             position_deltas |-> << <<1, 0, 0>> >>,
             rotation_deltas |-> <<>>,
             scale_deltas |-> <<>>,
             opacity_deltas |-> <<>>,
             effective_time_seconds |-> 0,
             is_controller_event_triggered_on_completed |-> TRUE,
             start_datetime |-> 0,
             is_instance_removed_on_curve_completed |-> FALSE ],
    c3 |-> [ curve_uuid |-> "u3",
             position_deltas |-> << <<0, 0, 0>>, <<0, 1, 0>> >>,
             rotation_deltas |-> <<>>,
             scale_deltas |-> <<>>,
             opacity_deltas |-> <<>>,
             effective_time_seconds |-> 2,
             is_controller_event_triggered_on_completed |-> FALSE,
             start_datetime |-> 0,
             is_instance_removed_on_curve_completed |-> TRUE ],
    c4 |-> [ curve_uuid |-> "u4",
             position_deltas |-> <<>>,
             rotation_deltas |-> <<>>,
             scale_deltas |-> <<>>,
             opacity_deltas |-> <<>>,
             effective_time_seconds |-> 0,
             is_controller_event_triggered_on_completed |-> FALSE,
             start_datetime |-> 0,
             is_instance_removed_on_curve_completed |-> TRUE ],
    c5 |-> [ curve_uuid |-> "u5",
             position_deltas |-> << <<0, 5, -1>> >>,
             rotation_deltas |-> << <<1, 0, 0>>, <<0, 2, -1>> >>,
             scale_deltas |-> <<1, 1, 1>>,
             opacity_deltas |-> <<2>>,
             effective_time_seconds |-> 3,
             is_controller_event_triggered_on_completed |-> TRUE,
             start_datetime |-> 0,
             is_instance_removed_on_curve_completed |-> FALSE ],
    c6 |-> [ curve_uuid |-> "u6",
             position_deltas |->
               << <<1, 0, -1>>, <<0, 1, 1>>, <<1, 1, 0>>, <<-1, 0, 1>>,
                  <<1, 0, -1>>, <<0, 1, 1>>, <<1, 1, 0>>, <<-1, 0, 1>>,
                  <<1, 0, -1>>, <<0, 1, 1>>, <<1, 1, 0>>, <<-1, 0, 1>> >>,
             rotation_deltas |->
               << <<0, 0, 1>>, <<0, 1, 0>>, <<1, 0, 0>>, <<0, 0, 1>>,
                  <<0, 1, 0>>, <<1, 0, 0>>, <<0, 0, 1>>, <<0, 1, 0>>,
                  <<1, 0, 0>>, <<0, 0, 1>>, <<0, 1, 0>>, <<1, 0, 0>> >>,
             scale_deltas |-> <<1, 1, 1, 1, 1, 1, 1, 1, 1, 1, 1, 1>>,
             opacity_deltas |-> <<1, -1, 1, -1, 1, -1, 1, -1, 1, -1, 1, -1>>,
             effective_time_seconds |-> 2,
             is_controller_event_triggered_on_completed |-> FALSE,
             start_datetime |-> 0,
             is_instance_removed_on_curve_completed |-> FALSE ],
    c7 |-> [ curve_uuid |-> "u7",
             position_deltas |->
               << <<1, 0, -1>>, <<0, 1, 1>>, <<1, 1, 0>>, <<-1, 0, 1>>,
                  <<1, 0, -1>>, <<0, 1, 1>>, <<1, 1, 0>>, <<-1, 0, 1>>,
                  <<1, 0, -1>>, <<0, 1, 1>>, <<1, 1, 0>>, <<-1, 0, 1>>,
                  <<1, 2, 3>> >>,
             rotation_deltas |->
               << <<0, 0, 1>>, <<0, 1, 0>>, <<1, 0, 0>>, <<0, 0, 1>>,
                  <<0, 1, 0>>, <<1, 0, 0>>, <<0, 0, 1>>, <<0, 1, 0>>,
                  <<1, 0, 0>>, <<0, 0, 1>>, <<0, 1, 0>>, <<1, 0, 0>>,
                  <<0, 0, 1>>, <<0, 1, 0>> >>,
             scale_deltas |-> <<1, 1, 1, 1, 1, 1, 1, 1, 1, 1, 1, 1, 1>>,
             opacity_deltas |-> <<1, -1, 1, -1, 1, -1, 1, -1, 1, -1, 1, -1, 1>>,
             effective_time_seconds |-> 2,
             is_controller_event_triggered_on_completed |-> FALSE,
             start_datetime |-> 0,
             is_instance_removed_on_curve_completed |-> FALSE ] ]

CurveObjs == DOMAIN Curves

\* -------------------------------------------------- the instance objects
\* The Instance objects the callers hand to render_instances.  `resource` is
\* the model_uuid / font_uuid / image_uuid / client_uuid of the variant, and
\* `curves0` the parallel_curves list the object was constructed with.
\*   i1  a model, its client list names curve_completed twice
\*   i2  a model under parent "a", subscribed to curve_completed
\*   i3  the camera of another client
\*   i4  a text, under the id of the camera
\*   i5  a model whose model_uuid is not registered with the engine
Instances ==
  [ i1 |-> [ instance_uuid |-> "a", instance_type |-> "model", resource |-> "king",
             client_event_types |-> <<"curve_completed", "mouse_moved", "curve_completed">>,
             renderer_event_types |-> <<"curve_completed">>,
             parent_instance_uuid |-> None, curves0 |-> <<"c1">> ],
    i2 |-> [ instance_uuid |-> "b", instance_type |-> "model", resource |-> "king",
             client_event_types |-> <<"curve_completed">>,
             renderer_event_types |-> <<"mouse_moved">>,
             parent_instance_uuid |-> "a", curves0 |-> <<>> ],
    i3 |-> [ instance_uuid |-> "c", instance_type |-> "camera", resource |-> "other",
             client_event_types |-> <<"mouse_moved">>,
             renderer_event_types |-> <<>>,
             parent_instance_uuid |-> None, curves0 |-> <<>> ],
    i4 |-> [ instance_uuid |-> "c", instance_type |-> "text", resource |-> "font",
             client_event_types |-> <<>>,
             renderer_event_types |-> <<"curve_completed">>,
             parent_instance_uuid |-> None, curves0 |-> <<"c3">> ],
    i5 |-> [ instance_uuid |-> "b", instance_type |-> "model", resource |-> "ghost",
             client_event_types |-> <<"curve_completed">>,
             renderer_event_types |-> <<>>,
             parent_instance_uuid |-> None, curves0 |-> <<>> ] ]

InstObjs == DOMAIN Instances

\* ------------------------------------------------ the engine's constructor
render_engine_uuid == "engine"

\* the keys of __model_per_model_uuid, __font_per_font_uuid, __image_per_image_uuid
model_per_model_uuid == {"king"}

font_per_font_uuid == {"font"}

image_per_image_uuid == {}

\* ------------------------------------------------------- curve evaluator
\* __cached_factorials: twelve entries, 0! to 11!
cached_factorials ==
  <<1, 1, 2, 6, 24, 120, 720, 5040, 40320, 362880, 3628800, 39916800>>

\* A variant of get_cached_factorial that starts over at the head of the list
\* for an index past its end
get_cached_factorial_wrapping(index) ==
  [ returns |-> cached_factorials[(index % Len(cached_factorials)) + 1],
    raised |-> None ]

\* get_cached_factorial(index=...): Python indexes from 0, and an index past
\* the end of the list raises IndexError.  The result is [returns, raised].
get_cached_factorial(index) ==
  IF index < Len(cached_factorials)
  THEN [returns |-> cached_factorials[index + 1], raised |-> None]
  ELSE [returns |-> None, raised |-> "IndexError"]

\* DateTimeDeltaCalculator.get_calculated_time_delta: 0 before the start, else
\* the time since the start, which lands exactly on effective_seconds once the
\* window has fully elapsed
get_calculated_time_delta(start_datetime, effective_seconds, now_datetime) ==
  IF now_datetime < start_datetime THEN 0
  ELSE Min(now_datetime - start_datetime, effective_seconds)

\* The loop body of Curve.__try_update_vector for the terms from index k on
\* (k counts from 1 here, the factorial index is k - 1).  The deltas are
\* integers, time_delta and the vectors are rationals.  The lists are updated
\* in place, so the terms before a term that raises stay added.
RECURSIVE VectorTerms(_, _, _, _, _)
VectorTerms(acc, k, vector_deltas, time_delta, is_default_vector_update_needed) ==
  IF k > Len(vector_deltas) THEN acc
  ELSE IF get_cached_factorial(k - 1).raised # None
  THEN [acc EXCEPT !.raised = get_cached_factorial(k - 1).raised]
  ELSE
    LET factorial == get_cached_factorial(k - 1).returns
        current_vector_delta ==
          [x \in 1..Len(acc.vector) |->
             RatDiv(RatMul(RatOf(vector_deltas[k][x]), acc.current_time_delta),
                    factorial)]
    IN VectorTerms(
         [ vector |-> [x \in 1..Len(acc.vector) |->
                         RatAdd(acc.vector[x], current_vector_delta[x])],
           default_vector |->
             IF is_default_vector_update_needed
             THEN [x \in 1..Len(acc.vector) |->
                     RatAdd(acc.default_vector[x], current_vector_delta[x])]
             ELSE acc.default_vector,
           current_time_delta |-> RatMul(acc.current_time_delta, time_delta),
           raised |-> None ],
         k + 1, vector_deltas, time_delta, is_default_vector_update_needed)

\* A variant of try_update_vector that advances current_time_delta before the
\* term is computed instead of after it
try_update_vector_shifted(effective_time_seconds, time_delta, vector, default_vector, vector_deltas) ==
  LET is_default_vector_update_needed == (time_delta = effective_time_seconds)
      acc == VectorTerms(
               [vector |-> vector, default_vector |-> default_vector,
                current_time_delta |-> time_delta, raised |-> None],
               1, vector_deltas, time_delta, is_default_vector_update_needed)
  IN [ vector |-> acc.vector, default_vector |-> acc.default_vector,
       returns |-> is_default_vector_update_needed, raised |-> acc.raised ]

\* Curve.__try_update_vector: the vector and the default vector after the
\* call, and the value it returns or the exception it raises
try_update_vector(effective_time_seconds, time_delta, vector, default_vector, vector_deltas) ==
  LET is_default_vector_update_needed == (time_delta = effective_time_seconds)
      acc == VectorTerms(
               [vector |-> vector, default_vector |-> default_vector,
                current_time_delta |-> RatOf(1), raised |-> None],
               1, vector_deltas, time_delta, is_default_vector_update_needed)
  IN [ vector |-> acc.vector, default_vector |-> acc.default_vector,
       returns |-> IF acc.raised = None THEN is_default_vector_update_needed
                   ELSE None,
       raised |-> acc.raised ]

\* The loop body of Curve.__try_update_float_reference for the terms from
\* index k on
RECURSIVE FloatReferenceTerms(_, _, _, _, _)
FloatReferenceTerms(acc, k, float_reference_deltas, time_delta, is_default_float_reference_update_needed) ==
  IF k > Len(float_reference_deltas) THEN acc
  ELSE IF get_cached_factorial(k - 1).raised # None
  THEN [acc EXCEPT !.raised = get_cached_factorial(k - 1).raised]
  ELSE
    LET factorial == get_cached_factorial(k - 1).returns
        current_float_reference_delta ==
          RatDiv(RatMul(RatOf(float_reference_deltas[k]), acc.current_time_delta),
                 factorial)
    IN FloatReferenceTerms(
         [ float_reference |->
             RatAdd(acc.float_reference, current_float_reference_delta),
           default_float_reference |->
             IF is_default_float_reference_update_needed
             THEN RatAdd(acc.default_float_reference, current_float_reference_delta)
             ELSE acc.default_float_reference,
           current_time_delta |-> RatMul(acc.current_time_delta, time_delta),
           raised |-> None ],
         k + 1, float_reference_deltas, time_delta,
         is_default_float_reference_update_needed)

\* Curve.__try_update_float_reference: the two FloatReference values after
\* the call, and the value it returns or the exception it raises
try_update_float_reference(effective_time_seconds, time_delta, float_reference, default_float_reference, float_reference_deltas) ==
  LET is_default_float_reference_update_needed ==
        (time_delta = effective_time_seconds)
      acc == FloatReferenceTerms(
               [float_reference |-> float_reference,
                default_float_reference |-> default_float_reference,
                current_time_delta |-> RatOf(1), raised |-> None],
               1, float_reference_deltas, time_delta,
               is_default_float_reference_update_needed)
  IN [ float_reference |-> acc.float_reference,
       default_float_reference |-> acc.default_float_reference,
       returns |-> IF acc.raised = None
                   THEN is_default_float_reference_update_needed ELSE None,
       raised |-> acc.raised ]

\* Curve.try_update_position.  The curve's effective_time_seconds is an
\* integer of the table, time_delta is a rational.
try_update_position(c, time_delta, position, default_position) ==
  try_update_vector(RatOf(Curves[c].effective_time_seconds), time_delta, position,
                    default_position, Curves[c].position_deltas)

\* Curve.try_update_rotation
try_update_rotation(c, time_delta, rotation, default_rotation) ==
  try_update_vector(RatOf(Curves[c].effective_time_seconds), time_delta, rotation,
                    default_rotation, Curves[c].rotation_deltas)

\* Curve.try_update_scale
try_update_scale(c, time_delta, scale, default_scale) ==
  try_update_float_reference(RatOf(Curves[c].effective_time_seconds), time_delta,
                             scale, default_scale, Curves[c].scale_deltas)

\* Curve.try_update_opacity
try_update_opacity(c, time_delta, opacity, default_opacity) ==
  try_update_float_reference(RatOf(Curves[c].effective_time_seconds), time_delta,
                             opacity, default_opacity, Curves[c].opacity_deltas)

\* ------------------------------------------------------ RenderedInstance
\* RenderedInstance.__init__.  node_position is the position of the backend
\* node (what setPos wrote last); folded counts, per curve object, how often
\* the curve was added into __initial_position.
NewRenderedInstance(o) ==
  [ instance |-> o,
    initial_position |-> <<RatOf(0), RatOf(0), RatOf(0)>>,
    position |-> <<RatOf(0), RatOf(0), RatOf(0)>>,
    initial_rotation |-> <<RatOf(0), RatOf(0), RatOf(0)>>,
    rotation |-> <<RatOf(0), RatOf(0), RatOf(0)>>,
    initial_scale |-> RatOf(0),
    scale |-> RatOf(0),
    initial_opacity |-> RatOf(0),
    opacity |-> RatOf(0),
    node_position |-> <<RatOf(0), RatOf(0), RatOf(0)>>,
    to_remove_parallel_curves |-> {},
    completed_curve_uuids |-> {},
    is_active_instance_removed_event |-> FALSE,
    is_active_curve_completed_event |-> FALSE,
    folded |-> [c \in CurveObjs |-> 0] ]

\* RenderedInstance.pop_completed_curve_uuids: the value returned and the
\* object afterwards
pop_completed_curve_uuids(r) ==
  IF r.completed_curve_uuids # {}
  THEN [ returns |-> r.completed_curve_uuids,
         self |-> [r EXCEPT !.completed_curve_uuids = {}] ]
  ELSE [ returns |-> {}, self |-> r ]

\* A variant of pop_is_active_instance_removed_event that leaves the flag set
pop_is_active_instance_removed_event_peeking(r) ==
  [ returns |-> r.is_active_instance_removed_event, self |-> r ]

\* RenderedInstance.pop_is_active_instance_removed_event
pop_is_active_instance_removed_event(r) ==
  IF r.is_active_instance_removed_event
  THEN [ returns |-> TRUE,
         self |-> [r EXCEPT !.is_active_instance_removed_event = FALSE] ]
  ELSE [ returns |-> FALSE, self |-> r ]

\* A variant of UpdateCurve without the test of the curve's start: a curve
\* with effective_time_seconds 0 is staged before it has started
UpdateCurveUnstarted(r, c, utc_now) ==
  IF Curves[c].effective_time_seconds = 0
  THEN [r EXCEPT !.to_remove_parallel_curves = @ \cup {c}]
  ELSE r

\* One round of the loop over the parallel curves in RenderedInstance.update
\* (the body for one curve of the list)
UpdateCurve(r, c, utc_now) ==
  IF Curves[c].start_datetime <= utc_now
  THEN
    IF Curves[c].effective_time_seconds = 0
    THEN [r EXCEPT !.to_remove_parallel_curves = @ \cup {c}]
    ELSE
      LET calculated_time_delta ==
            get_calculated_time_delta(Curves[c].start_datetime,
                                      Curves[c].effective_time_seconds, utc_now)
      IN IF calculated_time_delta > 0
         THEN
           LET time_delta == RatOf(calculated_time_delta)
               p == try_update_position(c, time_delta, r.position, r.initial_position)
               ro == try_update_rotation(c, time_delta, r.rotation, r.initial_rotation)
               sc == try_update_scale(c, time_delta, r.scale, r.initial_scale)
               op == try_update_opacity(c, time_delta, r.opacity, r.initial_opacity)
           IN [r EXCEPT
                 !.position = p.vector,
                 !.initial_position = p.default_vector,
                 !.rotation = ro.vector,
                 !.initial_rotation = ro.default_vector,
                 !.scale = sc.float_reference,
                 !.initial_scale = sc.default_float_reference,
                 !.opacity = op.float_reference,
                 !.initial_opacity = op.default_float_reference,
                 !.folded[c] = IF p.returns THEN @ + 1 ELSE @,
                 !.to_remove_parallel_curves =
                    IF p.returns THEN @ \cup {c} ELSE @]
         ELSE r
  ELSE r

\* the loop over the list, from its k-th entry on
RECURSIVE UpdateCurvesFrom(_, _, _, _)
UpdateCurvesFrom(r, list, k, utc_now) ==
  IF k > Len(list) THEN r
  ELSE UpdateCurvesFrom(UpdateCurve(r, list[k], utc_now), list, k + 1, utc_now)

\* A variant of UpdateIterate that does not reset the position to the initial
\* position before the curves are visited
UpdateIterateAccumulating(r, list, utc_now) ==
  LET r1 == UpdateCurvesFrom(r, list, 1, utc_now)
  IN [r1 EXCEPT !.node_position = r1.position]

\* RenderedInstance.update up to and including setPos: the position is reset
\* to the initial position, every curve of the instance's list is visited,
\* and the position is written to the node
UpdateIterate(r, list, utc_now) ==
  LET r1 == UpdateCurvesFrom([r EXCEPT !.position = r.initial_position],
                             list, 1, utc_now)
  IN [r1 EXCEPT !.node_position = r1.position]

\* A variant of MarkRemoved that buffers the uuid of every curve it removes,
\* whatever the curve's is_controller_event_triggered_on_completed says
MarkRemovedBufferingAll(r, c) ==
  [r EXCEPT
     !.completed_curve_uuids = @ \cup {Curves[c].curve_uuid},
     !.is_active_curve_completed_event =
        IF Curves[c].is_controller_event_triggered_on_completed THEN TRUE ELSE @,
     !.is_active_instance_removed_event =
        IF Curves[c].is_instance_removed_on_curve_completed THEN TRUE ELSE @]

\* A variant of MarkRemoved that also buffers the uuid of a removed curve that
\* asks for the completion event (lines 845-846 set the flag only)
MarkRemovedBuffering(r, c) ==
  [r EXCEPT
     !.completed_curve_uuids =
        IF Curves[c].is_controller_event_triggered_on_completed
        THEN @ \cup {Curves[c].curve_uuid} ELSE @,
     !.is_active_curve_completed_event =
        IF Curves[c].is_controller_event_triggered_on_completed THEN TRUE ELSE @,
     !.is_active_instance_removed_event =
        IF Curves[c].is_instance_removed_on_curve_completed THEN TRUE ELSE @]

\* A variant of MarkRemoved that flags the instance for removal whatever the
\* removed curve's is_instance_removed_on_curve_completed says
MarkRemovedAlways(r, c) ==
  [r EXCEPT
     !.is_active_curve_completed_event =
        IF Curves[c].is_controller_event_triggered_on_completed THEN TRUE ELSE @,
     !.is_active_instance_removed_event = TRUE]

\* The flags a curve sets when the second loop of update removes it
MarkRemoved(r, c) ==
  [r EXCEPT
     !.is_active_curve_completed_event =
        IF Curves[c].is_controller_event_triggered_on_completed THEN TRUE ELSE @,
     !.is_active_instance_removed_event =
        IF Curves[c].is_instance_removed_on_curve_completed THEN TRUE ELSE @]

\* The second loop of update, over __to_remove_parallel_curves in the order
\* `order`: list.remove raises ValueError for a curve that is not in the list,
\* and that ends update before the staging set is cleared.  u is
\* [self, list, raised].
RECURSIVE RemoveMarked(_, _, _)
RemoveMarked(u, order, k) ==
  IF k > Len(order) THEN u
  ELSE IF order[k] \notin Range(u.list) THEN [u EXCEPT !.raised = "ValueError"]
  ELSE RemoveMarked(
         [u EXCEPT !.list = ListRemove(u.list, order[k]),
                   !.self = MarkRemoved(u.self, order[k])],
         order, k + 1)

\* RenderedInstance.update after setPos
UpdateRemove(r, list, order) ==
  LET u == RemoveMarked([self |-> r, list |-> list, raised |-> None], order, 1)
  IN IF u.raised # None THEN u
     ELSE [u EXCEPT !.self.to_remove_parallel_curves = {}]

\* some order of a set, for the loops whose result does not depend on it
RECURSIVE SomeOrder(_)
SomeOrder(S) ==
  IF S = {} THEN <<>>
  ELSE LET x == CHOOSE y \in S : TRUE IN <<x>> \o SomeOrder(S \ {x})

\* RenderedInstance.update, whole: [self, list, raised]
update(r, list, utc_now) ==
  LET r1 == UpdateIterate(r, list, utc_now)
  IN UpdateRemove(r1, list, SomeOrder(r1.to_remove_parallel_curves))

\* -------------------------------------------------------- instance deltas
\* The InstanceDelta objects the callers hand to apply_instance_deltas; each
\* call constructs its deltas afresh, so a delta's list is not shared with an
\* earlier call's.
Deltas ==
  { [instance_delta_type |-> "append_parallel_curves", instance_uuid |-> "a",
     parallel_curves |-> <<"c1">>, text |-> None],
    [instance_delta_type |-> "append_parallel_curves", instance_uuid |-> "b",
     parallel_curves |-> <<>>, text |-> None],
    [instance_delta_type |-> "append_parallel_curves", instance_uuid |-> "b",
     parallel_curves |-> <<"c2">>, text |-> None],
    [instance_delta_type |-> "set_parallel_curves", instance_uuid |-> "a",
     parallel_curves |-> <<"c4">>, text |-> None],
    [instance_delta_type |-> "set_text", instance_uuid |-> "c",
     parallel_curves |-> <<>>, text |-> "t1"] }

\* A variant of apply_to_instance in which AppendParallelCurves gives the
\* instance the list of the delta, as SetParallelCurves does
apply_to_instance_replacing(delta, o, e) ==
  CASE delta.instance_delta_type \in {"append_parallel_curves", "set_parallel_curves"} ->
         [ parallel_curves |->
             [e.parallel_curves EXCEPT ![o] = delta.parallel_curves],
           text |-> e.text, raised |-> None ]
    [] delta.instance_delta_type = "set_text" ->
         IF Instances[o].instance_type = "text"
         THEN [ parallel_curves |-> e.parallel_curves,
                text |-> [e.text EXCEPT ![o] = delta.text], raised |-> None ]
         ELSE [ parallel_curves |-> e.parallel_curves, text |-> e.text,
                raised |-> "NotImplementedError" ]

\* A variant of apply_to_instance in which SetText sets the text of whatever
\* instance it is given (the isinstance test of line 694 left out)
apply_to_instance_untyped(delta, o, e) ==
  CASE delta.instance_delta_type = "append_parallel_curves" ->
         [ parallel_curves |->
             [e.parallel_curves EXCEPT ![o] = @ \o delta.parallel_curves],
           text |-> e.text, raised |-> None ]
    [] delta.instance_delta_type = "set_parallel_curves" ->
         [ parallel_curves |->
             [e.parallel_curves EXCEPT ![o] = delta.parallel_curves],
           text |-> e.text, raised |-> None ]
    [] delta.instance_delta_type = "set_text" ->
         [ parallel_curves |-> e.parallel_curves,
           text |-> [e.text EXCEPT ![o] = delta.text], raised |-> None ]

\* apply_to_instance of the three delta classes, on instance object o:
\* [parallel_curves, text, raised]
apply_to_instance(delta, o, e) ==
  CASE delta.instance_delta_type = "append_parallel_curves" ->
         [ parallel_curves |->
             [e.parallel_curves EXCEPT ![o] = @ \o delta.parallel_curves],
           text |-> e.text, raised |-> None ]
    [] delta.instance_delta_type = "set_parallel_curves" ->
         [ parallel_curves |->
             [e.parallel_curves EXCEPT ![o] = delta.parallel_curves],
           text |-> e.text, raised |-> None ]
    [] delta.instance_delta_type = "set_text" ->
         IF Instances[o].instance_type = "text"
         THEN [ parallel_curves |-> e.parallel_curves,
                text |-> [e.text EXCEPT ![o] = delta.text], raised |-> None ]
         ELSE [ parallel_curves |-> e.parallel_curves, text |-> e.text,
                raised |-> "NotImplementedError" ]

\* A variant of ApplyDelta that skips a delta whose instance is not registered
ApplyDeltaSkipping(e, delta) ==
  IF delta.instance_uuid \notin DOMAIN e.instance_per_instance_uuid
  THEN [engine |-> e, raised |-> None]
  ELSE
    LET a == apply_to_instance(
               delta, e.instance_per_instance_uuid[delta.instance_uuid], e)
    IN [ engine |-> [e EXCEPT !.parallel_curves = a.parallel_curves,
                              !.text = a.text],
         raised |-> a.raised ]

\* The body of the loop of RenderEngine.apply_instance_deltas for one delta:
\* [engine, raised]
ApplyDelta(e, delta) ==
  IF delta.instance_uuid \notin DOMAIN e.instance_per_instance_uuid
  THEN [engine |-> e, raised |-> "KeyError"]
  ELSE
    LET a == apply_to_instance(
               delta, e.instance_per_instance_uuid[delta.instance_uuid], e)
    IN [ engine |-> [e EXCEPT !.parallel_curves = a.parallel_curves,
                              !.text = a.text],
         raised |-> a.raised ]

\* RenderEngine.apply_instance_deltas from the k-th delta of the batch on: an
\* exception leaves the loop.  [engine, error, at]: the engine afterwards, the
\* exception raised to the caller (or None), and the delta that raised it.
RECURSIVE apply_instance_deltas_from(_, _, _)
apply_instance_deltas_from(e, instance_deltas, k) ==
  IF k > Len(instance_deltas) THEN [engine |-> e, error |-> None, at |-> 0]
  ELSE
    LET d == ApplyDelta(e, instance_deltas[k])
    IN IF d.raised # None
       THEN [engine |-> d.engine, error |-> d.raised, at |-> k]
       ELSE apply_instance_deltas_from(d.engine, instance_deltas, k + 1)

\* RenderEngine.apply_instance_deltas
apply_instance_deltas(e, instance_deltas) ==
  apply_instance_deltas_from(e, instance_deltas, 1)

\* ------------------------------------------------------- render_instances
\* A variant of EventTypesOf that takes the client list on every engine
EventTypesOfClient(o, client) == Instances[o].client_event_types

\* The event types an instance is indexed under
EventTypesOf(o, client) ==
  IF client THEN Instances[o].client_event_types
  ELSE Instances[o].renderer_event_types

\* What the type branches of render_instances make of instance object o:
\* "node" (a node path was made), "no node" (node_path stays None) or the
\* exception raised
NodePathFor(o, client) ==
  CASE Instances[o].instance_type = "model" ->
         IF Instances[o].resource \in model_per_model_uuid
         THEN "node" ELSE "Exception"
    [] Instances[o].instance_type = "text" ->
         IF Instances[o].resource \in font_per_font_uuid
         THEN "node" ELSE "Exception"
    [] Instances[o].instance_type = "image" ->
         IF Instances[o].resource \in image_per_image_uuid
         THEN "node" ELSE "Exception"
    [] Instances[o].instance_type = "camera" ->
         IF client /\ render_engine_uuid = Instances[o].resource
         THEN "node" ELSE "no node"

\* The tail of the loop body of render_instances, for an instance with a node
\* path: the rendered instance is constructed, registered and indexed
RegisterRendered(e, o, client) ==
  LET rendered_instance ==
        <<o, 1 + Cardinality({ri \in DOMAIN e.rendered : ri[1] = o})>>
      instance_uuid == Instances[o].instance_uuid
  IN [e EXCEPT
        !.rendered = DictSet(@, rendered_instance, NewRenderedInstance(o)),
        !.rendered_instance_per_instance_uuid =
           DictSet(@, instance_uuid, rendered_instance),
        !.rendered_instances_per_event_type =
           [t \in EventTypeEnum |->
              IF t \in Range(EventTypesOf(o, client))
              THEN @[t] \cup {rendered_instance} ELSE @[t]]]

\* The body of the loop of render_instances for one instance: [engine, raised]
RenderInstance(e, o, client) ==
  LET instance_uuid == Instances[o].instance_uuid
      e1 == [e EXCEPT !.instance_per_instance_uuid = DictSet(@, instance_uuid, o)]
      parent == Instances[o].parent_instance_uuid
  IN IF parent # None /\ parent \notin DOMAIN e1.rendered_instance_per_instance_uuid
     THEN [engine |-> e1, raised |-> "KeyError"]
     ELSE
       LET node_path == NodePathFor(o, client)
       IN CASE node_path = "node" ->
                 [engine |-> RegisterRendered(e1, o, client), raised |-> None]
            [] node_path = "no node" -> [engine |-> e1, raised |-> None]
            [] OTHER -> [engine |-> e1, raised |-> node_path]

\* RenderEngine.render_instances from the k-th instance of the batch on
RECURSIVE render_instances_from(_, _, _, _)
render_instances_from(e, instances, k, client) ==
  IF k > Len(instances) THEN [engine |-> e, error |-> None, at |-> 0]
  ELSE
    LET d == RenderInstance(e, instances[k], client)
    IN IF d.raised # None
       THEN [engine |-> d.engine, error |-> d.raised, at |-> k]
       ELSE render_instances_from(d.engine, instances, k + 1, client)

\* A variant of render_instances that gives back the engine it was called on
\* when an instance of the batch raises
render_instances_undoing(e, instances, client) ==
  LET res == render_instances_from(e, instances, 1, client)
  IN IF res.error # None THEN [res EXCEPT !.engine = e] ELSE res

\* RenderEngine.render_instances
render_instances(e, instances, client) ==
  render_instances_from(e, instances, 1, client)

\* ------------------------------------------------------------------ state
VARIABLES
  is_client,                            \* RenderEngine.__is_client
  on_event_callable_per_event_type,     \* the event types a handler is registered for
  instance_per_instance_uuid,           \* dict: instance uuid -> instance object
  rendered_instance_per_instance_uuid,  \* dict: instance uuid -> rendered instance
  rendered_instances_per_event_type,    \* event type -> set of rendered instances
  to_remove_rendered_instance,          \* RenderEngine.__to_remove_rendered_instance
  rendered,                             \* the RenderedInstance objects constructed so far
  parallel_curves,                      \* Instance.__parallel_curves of every instance object
  text,                                 \* TextInstance.__text of every instance object
  now,                                  \* the clock datetime.utcnow() reads
  raised,                               \* the exception that ended the tick loop, or None
  handled,                              \* the events the handlers were invoked with
  found_exception,                      \* RenderEngine.__found_exception, with the place it was raised at
  task,                                 \* the frame of the running update task: its position and locals
  show_base,                            \* RenderEngine.__show_base: the backend and its task manager
  disposed,                             \* the calls of dispose() that have ended, with what each raised
  evaluation,                           \* a method called on its own, outside a running engine: arguments and result
  previous_mouse_time,                  \* RenderEngine.__previous_mouse_time
  previous_mouse_x,                     \* RenderEngine.__previous_mouse_x
  previous_mouse_y                      \* RenderEngine.__previous_mouse_y

vars == << is_client, on_event_callable_per_event_type, instance_per_instance_uuid,
           rendered_instance_per_instance_uuid, rendered_instances_per_event_type,
           to_remove_rendered_instance, rendered, parallel_curves, text, now,
           raised, handled, found_exception, task, show_base, disposed,
           evaluation, previous_mouse_time, previous_mouse_x, previous_mouse_y >>

\* ---------------------------------------------------- the engine as a value
\* The mutable state the entry points and the tick task read and write, as one
\* record, so that each method is an operator from engine to engine.
Engine ==
  [ instance_per_instance_uuid |-> instance_per_instance_uuid,
    rendered_instance_per_instance_uuid |-> rendered_instance_per_instance_uuid,
    rendered_instances_per_event_type |-> rendered_instances_per_event_type,
    to_remove_rendered_instance |-> to_remove_rendered_instance,
    rendered |-> rendered,
    parallel_curves |-> parallel_curves,
    text |-> text,
    handled |-> handled,
    raised |-> raised ]

\* the engine's variables take the values of the record e
Becomes(e) ==
  /\ instance_per_instance_uuid' = e.instance_per_instance_uuid
  /\ rendered_instance_per_instance_uuid' = e.rendered_instance_per_instance_uuid
  /\ rendered_instances_per_event_type' = e.rendered_instances_per_event_type
  /\ to_remove_rendered_instance' = e.to_remove_rendered_instance
  /\ rendered' = e.rendered
  /\ parallel_curves' = e.parallel_curves
  /\ text' = e.text
  /\ handled' = e.handled
  /\ raised' = e.raised

\* ------------------------------------------- __render_instance_update_task
\* The first half of the loop body of the task for the rendered instance ri
\* the loop has fetched: update runs up to setPos
TaskIterate(e, ri, utc_now) ==
  LET r == e.rendered[ri]
  IN [e EXCEPT !.rendered[ri] =
        UpdateIterate(r, e.parallel_curves[r.instance], utc_now)]

\* The second half: update removes the marked curves, then the task pops the
\* two buffers of the rendered instance.  t is [engine, completed_curve_uuids]
\* with the task's local set; an exception in update ends the task.
TaskRemove(t, ri, order) ==
  LET e == t.engine
      r == e.rendered[ri]
      u == UpdateRemove(r, e.parallel_curves[r.instance], order)
      e1 == [e EXCEPT !.rendered[ri] = u.self,
                      !.parallel_curves[r.instance] = u.list]
  IN IF u.raised # None
     THEN [t EXCEPT !.engine = [e1 EXCEPT !.raised = u.raised]]
     ELSE
       LET completed == pop_completed_curve_uuids(u.self)
           removed == pop_is_active_instance_removed_event(completed.self)
       IN [ engine |->
              [e1 EXCEPT
                 !.rendered[ri] = removed.self,
                 !.to_remove_rendered_instance =
                    IF removed.returns THEN @ \cup {ri} ELSE @],
            completed_curve_uuids |->
              t.completed_curve_uuids \cup completed.returns ]

\* The first loop of the task over the rendered instances under the ids
\* `ids`, from the k-th on.  The rendered instances of one registry are bound
\* to different instance objects, so the result does not depend on the order.
RECURSIVE TaskUpdateFrom(_, _, _, _)
TaskUpdateFrom(t, ids, k, utc_now) ==
  IF k > Len(ids) \/ t.engine.raised # None THEN t
  ELSE
    LET ri == t.engine.rendered_instance_per_instance_uuid[ids[k]]
        e1 == TaskIterate(t.engine, ri, utc_now)
    IN TaskUpdateFrom(
         TaskRemove([t EXCEPT !.engine = e1], ri,
                    SomeOrder(e1.rendered[ri].to_remove_parallel_curves)),
         ids, k + 1, utc_now)

\* set.remove of the rendered instance ri from the buckets of the event types
\* of `types`, from the k-th on: KeyError when the bucket does not hold it
RECURSIVE RemoveFromBuckets(_, _, _, _)
RemoveFromBuckets(e, ri, types, k) ==
  IF k > Len(types) THEN e
  ELSE IF ri \notin e.rendered_instances_per_event_type[types[k]]
  THEN [e EXCEPT !.raised = "KeyError"]
  ELSE RemoveFromBuckets(
         [e EXCEPT !.rendered_instances_per_event_type[types[k]] = @ \ {ri}],
         ri, types, k + 1)

\* A variant of RemoveRendered that leaves the rendered instance in its
\* registry (line 987 left out)
RemoveRenderedKeeping(e, ri, client) ==
  LET instance == e.rendered[ri].instance
      instance_uuid == Instances[instance].instance_uuid
  IN IF instance_uuid \notin DOMAIN e.instance_per_instance_uuid
     THEN [e EXCEPT !.raised = "KeyError"]
     ELSE RemoveFromBuckets(
            [e EXCEPT !.instance_per_instance_uuid = DictDel(@, instance_uuid)],
            ri, EventTypesOf(instance, client), 1)

\* The body of the removal loop of the task for one flagged rendered instance:
\* the two del statements raise KeyError for an id that is not a key, the
\* second after the first has taken effect
RemoveRendered(e, ri, client) ==
  LET instance == e.rendered[ri].instance
      instance_uuid == Instances[instance].instance_uuid
  IN IF instance_uuid \notin DOMAIN e.rendered_instance_per_instance_uuid
     THEN [e EXCEPT !.raised = "KeyError"]
     ELSE IF instance_uuid \notin DOMAIN e.instance_per_instance_uuid
     THEN [e EXCEPT !.raised = "KeyError",
                    !.rendered_instance_per_instance_uuid = DictDel(@, instance_uuid)]
     ELSE RemoveFromBuckets(
            [e EXCEPT
               !.rendered_instance_per_instance_uuid = DictDel(@, instance_uuid),
               !.instance_per_instance_uuid = DictDel(@, instance_uuid)],
            ri, EventTypesOf(instance, client), 1)

\* The removal loop of the task over __to_remove_rendered_instance in the
\* order `order`, from the k-th on; an exception leaves the loop
RECURSIVE RemoveRenderedFrom(_, _, _, _)
RemoveRenderedFrom(e, order, k, client) ==
  IF k > Len(order) \/ e.raised # None THEN e
  ELSE RemoveRenderedFrom(RemoveRendered(e, order[k], client), order, k + 1, client)

\* The second block of the task: the flagged rendered instances are removed
\* and the set is cleared
CommitRemovals(e, order, client) ==
  LET e1 == RemoveRenderedFrom(e, order, 1, client)
  IN IF e1.raised # None THEN e1
     ELSE [e1 EXCEPT !.to_remove_rendered_instance = {}]

\* RenderedInstance.get_rendered_instance_state
get_rendered_instance_state(e, ri) ==
  [ instance |-> e.rendered[ri].instance,
    position |-> e.rendered[ri].node_position ]

\* RenderEngine.get_rendered_instance_states_by_event_type: one state for
\* every rendered instance of the bucket (the list, whatever its order)
get_rendered_instance_states_by_event_type(e, event_type) ==
  [ ri \in e.rendered_instances_per_event_type[event_type] |->
      get_rendered_instance_state(e, ri) ]

\* The handler is invoked once for every id of `order`, from the k-th on
RECURSIVE InvokeFrom(_, _, _, _, _)
InvokeFrom(e, order, k, states, utc_now) ==
  IF k > Len(order) THEN e
  ELSE InvokeFrom(
         [e EXCEPT !.handled =
            Append(@, [ curve_uuid |-> order[k],
                        rendered_instance_states |-> states,
                        triggered_datetime |-> utc_now ])],
         order, k + 1, states, utc_now)

\* The third block of the task: one CurveCompletedEvent per completed curve
\* uuid, when a handler is registered
Dispatch(e, completed_curve_uuids, order, handlers, utc_now) ==
  IF "curve_completed" \in handlers /\ completed_curve_uuids # {}
  THEN InvokeFrom(e, order, 1,
         get_rendered_instance_states_by_event_type(e, "curve_completed"),
         utc_now)
  ELSE e

\* The task from its second block on
TaskFinish(t, order, event_order, client, handlers, utc_now) ==
  LET e1 == IF t.engine.to_remove_rendered_instance # {}
            THEN CommitRemovals(t.engine, order, client) ELSE t.engine
  IN IF e1.raised # None THEN e1
     ELSE Dispatch(e1, t.completed_curve_uuids, event_order, handlers, utc_now)

\* the frame while __render_instance_update_task is not running
NoTask ==
  [ pc |-> "idle", ids |-> <<>>, used |-> 0, render_instance |-> None,
    curves |-> <<>>, completed_curve_uuids |-> {} ]

\* no method is called on its own
NoEvaluation == [kind |-> "none"]

\* the keys of __previous_mouse_time, __previous_mouse_x, __previous_mouse_y
mouse_vars == <<previous_mouse_time, previous_mouse_x, previous_mouse_y>>

\* mouseWatcherNode while the pointer is outside the window
NoMouse == [hasMouse |-> FALSE, mouse_x |-> 0, mouse_y |-> 0]

\* RenderEngine.__init__ and __initialize, but for the is_client argument
InitRegistries ==
  /\ on_event_callable_per_event_type = {"curve_completed", "mouse_moved"}
  /\ instance_per_instance_uuid = EmptyDict
  /\ rendered_instance_per_instance_uuid = EmptyDict
  /\ rendered_instances_per_event_type = [e \in EventTypeEnum |-> {}]
  /\ to_remove_rendered_instance = {}
  /\ rendered = EmptyDict
  /\ parallel_curves = [o \in InstObjs |-> Instances[o].curves0]
  /\ text = [o \in InstObjs |-> "t0"]
  /\ now = 0
  /\ raised = None
  /\ handled = <<>>
  /\ found_exception = [error |-> None, at |-> 0]
  /\ task = NoTask
  /\ show_base = [ released |-> FALSE, exit_tasks |-> 0, running |-> TRUE,
                   mouseWatcherNode |-> NoMouse ]
  /\ previous_mouse_time = 0
  /\ previous_mouse_x = 0
  /\ previous_mouse_y = 0
  /\ disposed = <<>>

\* RenderEngine.__init__ of a client engine
InitEngine == is_client = TRUE /\ InitRegistries

Init == InitEngine /\ evaluation = NoEvaluation

\* ---------------------------------------------------------------- actions
\* the batches of instances a caller passes to render_instances
InstanceBatches ==
  {<<o>> : o \in InstObjs}
    \cup { <<"i1", "i2">>, <<"i2", "i1">>, <<"i5", "i4">>, <<"i4", "i3">>,
           <<"i1", "i5", "i4">> }

\* the batches of deltas a caller passes to apply_instance_deltas
DeltaBatches ==
  {<<d>> : d \in Deltas}
    \cup { <<d, f>> : d \in {x \in Deltas : x.instance_uuid = "a"},
                      f \in {x \in Deltas : x.instance_uuid = "c"} }
    \cup { <<f, d>> : d \in {x \in Deltas : x.instance_delta_type = "set_parallel_curves"},
                      f \in {x \in Deltas : x.instance_uuid = "c"} }

\* What the wrapper `run` of RenderEngine.start does with the outcome of a
\* call the on_start_callable makes: an exception ends the callable and is
\* stored, with the index of the batch entry that raised it
Captured(res) == [error |-> res.error, at |-> res.at]

\* The on_start_callable calls render_instances with the batch given
RenderInstancesOf(instances) ==
  LET res == render_instances(Engine, instances, is_client)
  IN /\ found_exception.error = None
     /\ Cardinality(DOMAIN res.engine.rendered) <= MaxRendered
     /\ Becomes(res.engine)
     /\ found_exception' = Captured(res)
     /\ UNCHANGED <<is_client, mouse_vars, show_base, disposed, evaluation, on_event_callable_per_event_type, now, task>>

\* The on_start_callable calls render_instances(instances=...)
RenderInstances == \E instances \in InstanceBatches : RenderInstancesOf(instances)

\* The on_start_callable calls apply_instance_deltas with the batch given
ApplyInstanceDeltasOf(instance_deltas) ==
  LET res == apply_instance_deltas(Engine, instance_deltas)
  IN /\ found_exception.error = None
     /\ UNCHANGED <<is_client, mouse_vars, show_base, disposed, evaluation, on_event_callable_per_event_type, now, task>>
     /\ \A o \in InstObjs : Len(res.engine.parallel_curves[o]) <= MaxCurves
     /\ Becomes(res.engine)
     /\ found_exception' = Captured(res)

\* The on_start_callable calls apply_instance_deltas(instance_deltas=...)
ApplyInstanceDeltas ==
  \E instance_deltas \in DeltaBatches : ApplyInstanceDeltasOf(instance_deltas)

\* One run of RenderEngine.__render_instance_update_task, whole.  The clock
\* has moved on by one second since the last run; an exception in the task
\* ends the task manager's loop.
Tick ==
  /\ show_base.running
  /\ raised = None
  /\ now < MaxTime
  /\ task.pc = "idle"
  /\ LET utc_now == now + 1
         t == TaskUpdateFrom(
                [engine |-> Engine, completed_curve_uuids |-> {}],
                SomeOrder(DOMAIN rendered_instance_per_instance_uuid), 1, utc_now)
     IN \E order \in Orders(t.engine.to_remove_rendered_instance) :
        \E event_order \in Orders(t.completed_curve_uuids) :
          /\ Becomes(TaskFinish(t, order, event_order, is_client,
                                on_event_callable_per_event_type, utc_now))
          /\ now' = utc_now
          /\ UNCHANGED <<is_client, mouse_vars, show_base, disposed, evaluation, on_event_callable_per_event_type,
                         found_exception, task>>

Next == RenderInstances \/ ApplyInstanceDeltas \/ Tick

Spec == Init /\ [][Next]_vars

\* ------------------------------- the task and the on_start thread interleaved
\* RenderEngine.start runs the on_start_callable in a thread of its own while
\* the task manager runs the task, and nothing orders the steps of the two:
\* here the task advances in steps (the start of its loop, the fetch of the
\* next rendered instance with the start of update, one round of the first
\* loop of update per curve, setPos and the second loop of update with the two
\* pops, the removals and the dispatch), and the calls of the
\* on_start_callable fall between any two of them.

\* The task starts: utcnow() is read (now + 1 until the task ends) and the
\* for statement takes an iterator over the values of the registry
BeginTask ==
  /\ show_base.running
  /\ raised = None
  /\ now < MaxTime
  /\ task.pc = "idle"
  /\ task' = [ pc |-> "for",
               ids |-> SomeOrder(DOMAIN rendered_instance_per_instance_uuid),
               used |-> Cardinality(DOMAIN rendered_instance_per_instance_uuid),
               render_instance |-> None,
               curves |-> <<>>,
               completed_curve_uuids |-> {} ]
  /\ UNCHANGED <<is_client, mouse_vars, show_base, disposed, evaluation, on_event_callable_per_event_type,
                 instance_per_instance_uuid, rendered_instance_per_instance_uuid,
                 rendered_instances_per_event_type, to_remove_rendered_instance,
                 rendered, parallel_curves, text, now, raised, handled,
                 found_exception>>

\* The for statement asks the iterator for the next rendered instance.  A dict
\* iterator raises RuntimeError when the size of the dict is not the size it
\* started with; otherwise it yields the value now stored under the next key,
\* and update starts on it: the position is reset to the initial position and
\* the for statement of update takes the list the instance holds now (`curves`
\* is what is left of it to visit; the calls of the on_start_callable give the
\* instance another list and leave this one as it is).  After the last key
\* the loop is left.
FetchAndIterate ==
  /\ task.pc = "for"
  /\ IF Cardinality(DOMAIN rendered_instance_per_instance_uuid) # task.used
     THEN /\ raised' = "RuntimeError"
          /\ task' = NoTask
          /\ UNCHANGED <<rendered>>
     ELSE IF task.ids = <<>>
     THEN /\ task' = [task EXCEPT !.pc = "removals"]
          /\ UNCHANGED <<rendered, raised>>
     ELSE LET ri == rendered_instance_per_instance_uuid[Head(task.ids)]
          IN /\ rendered' = [rendered EXCEPT
                               ![ri].position = rendered[ri].initial_position]
             /\ task' = [task EXCEPT
                           !.pc = "update", !.render_instance = ri,
                           !.curves = parallel_curves[rendered[ri].instance]]
             /\ UNCHANGED <<raised>>
  /\ UNCHANGED <<is_client, mouse_vars, show_base, disposed, evaluation, on_event_callable_per_event_type,
                 instance_per_instance_uuid, rendered_instance_per_instance_uuid,
                 rendered_instances_per_event_type, to_remove_rendered_instance,
                 parallel_curves, text, now, handled, found_exception>>

\* One round of the first loop of update: the next curve of the list the loop
\* iterates is visited
VisitCurve ==
  /\ task.pc = "update"
  /\ task.curves # <<>>
  /\ rendered' = [rendered EXCEPT ![task.render_instance] =
                    UpdateCurve(@, Head(task.curves), now + 1)]
  /\ task' = [task EXCEPT !.curves = Tail(@)]
  /\ UNCHANGED <<is_client, mouse_vars, show_base, disposed, evaluation, on_event_callable_per_event_type,
                 instance_per_instance_uuid, rendered_instance_per_instance_uuid,
                 rendered_instances_per_event_type, to_remove_rendered_instance,
                 parallel_curves, text, now, raised, handled, found_exception>>

\* The first loop of update is over: setPos writes the position, update runs
\* its second loop on the list the instance holds now, and the task pops the
\* two buffers; an exception in update ends the task
RemoveAndPop ==
  /\ task.pc = "update"
  /\ task.curves = <<>>
  /\ \E order \in Orders(rendered[task.render_instance].to_remove_parallel_curves) :
       LET e == [Engine EXCEPT !.rendered[task.render_instance].node_position =
                                  rendered[task.render_instance].position]
           t == TaskRemove(
                  [engine |-> e,
                   completed_curve_uuids |-> task.completed_curve_uuids],
                  task.render_instance, order)
       IN /\ Becomes(t.engine)
          /\ task' = IF t.engine.raised # None THEN NoTask
                     ELSE [task EXCEPT
                             !.pc = "for", !.ids = Tail(@),
                             !.render_instance = None,
                             !.completed_curve_uuids = t.completed_curve_uuids]
  /\ UNCHANGED <<is_client, mouse_vars, show_base, disposed, evaluation, on_event_callable_per_event_type, now, found_exception>>

\* The task removes the flagged rendered instances, invokes the handler and
\* returns
RemoveAndDispatch ==
  /\ task.pc = "removals"
  /\ \E order \in Orders(to_remove_rendered_instance) :
     \E event_order \in Orders(task.completed_curve_uuids) :
       Becomes(TaskFinish(
                 [engine |-> Engine,
                  completed_curve_uuids |-> task.completed_curve_uuids],
                 order, event_order, is_client,
                 on_event_callable_per_event_type, now + 1))
  /\ now' = now + 1
  /\ task' = NoTask
  /\ UNCHANGED <<is_client, mouse_vars, show_base, disposed, evaluation, on_event_callable_per_event_type, found_exception>>

NextRace ==
  \/ RenderInstances
  \/ ApplyInstanceDeltas
  \/ BeginTask
  \/ FetchAndIterate
  \/ VisitCurve
  \/ RemoveAndPop
  \/ RemoveAndDispatch

SpecRace == Init /\ [][NextRace]_vars

\* ------------------------------------------------------------- dispose
\* the number of calls of dispose() a behaviour makes
MaxDispose == 2

\* A variant of dispose that looks at __found_exception first and raises it
\* before it has touched the backend
dispose_raising_first(sb, found) ==
  IF found.error # None
  THEN [show_base |-> sb, raised |-> found, released |-> sb.released]
  ELSE [show_base |-> [sb EXCEPT !.released = TRUE, !.exit_tasks = @ + 1],
        raised |-> found, released |-> TRUE]

\* RenderEngine.dispose on the backend sb with __found_exception = found: the
\* model nodes are removed, the textures released and the ShowBase shut down
\* and destroyed (`released`), exitTask is added to the task manager, and the
\* found exception is raised if there is one.  The result holds the backend,
\* what the call raised (found itself: its error is None when the call
\* returns) and whether the backend was released by then.
dispose(sb, found) ==
  LET sb1 == [sb EXCEPT !.released = TRUE]
      sb2 == [sb1 EXCEPT !.exit_tasks = @ + 1]
  IN [show_base |-> sb2, raised |-> found, released |-> sb2.released]

\* A call of dispose(), from the on_start_callable (as the test does) while
\* it runs, or from any other caller once the callable has ended
Dispose ==
  /\ Len(disposed) < MaxDispose
  /\ LET res == dispose(show_base, found_exception)
     IN /\ show_base' = res.show_base
        /\ disposed' = Append(disposed, [raised |-> res.raised,
                                         released |-> res.released])
  /\ UNCHANGED <<is_client, mouse_vars, on_event_callable_per_event_type,
                 instance_per_instance_uuid, rendered_instance_per_instance_uuid,
                 rendered_instances_per_event_type, to_remove_rendered_instance,
                 rendered, parallel_curves, text, now, raised, handled,
                 found_exception, task, evaluation>>

\* The task manager runs an exitTask: sys.exit() raises SystemExit in the
\* loop of ShowBase.run, start catches it and returns
ExitTask ==
  /\ show_base.running
  /\ show_base.exit_tasks > 0
  /\ raised = None
  /\ task.pc = "idle"
  /\ show_base' = [show_base EXCEPT !.running = FALSE]
  /\ UNCHANGED <<is_client, mouse_vars, on_event_callable_per_event_type,
                 instance_per_instance_uuid, rendered_instance_per_instance_uuid,
                 rendered_instances_per_event_type, to_remove_rendered_instance,
                 rendered, parallel_curves, text, now, raised, handled,
                 found_exception, task, disposed, evaluation>>

\* The engine with callers that render and dispose: the on_start_callable
\* calls render_instances, dispose() is called, and the task manager runs the
\* update task and the exit tasks
NextDispose ==
  \/ RenderInstances
  \/ Tick
  \/ Dispose
  \/ ExitTask

SpecDispose == Init /\ [][NextDispose]_vars

\* ------------------------------------- the methods called on their own
\* The public methods of Curve and RenderedInstance.update take their
\* arguments from the caller; here they are called outside a running engine,
\* on arguments drawn from the sets below.

\* the number of consecutive calls of update on one rendered instance
MaxUpdates == 4

\* the elapsed times passed as time_delta
TimeDeltas == { RatOf(0), Rat(1, 2), RatOf(1), RatOf(2), RatOf(3) }

\* the vectors and FloatReference values an accumulator holds before a call
Vectors == { <<RatOf(0), RatOf(0), RatOf(0)>>, <<RatOf(1), RatOf(-2), Rat(1, 2)>> }

Floats == { RatOf(0), Rat(3, 2) }

\* the delta table of a channel of curve c
DeltasOf(c, channel) ==
  CASE channel = "position" -> Curves[c].position_deltas
    [] channel = "rotation" -> Curves[c].rotation_deltas
    [] channel = "scale" -> Curves[c].scale_deltas
    [] channel = "opacity" -> Curves[c].opacity_deltas

\* The calls of Curve.try_update_<channel>: the accumulator and the default
\* accumulator are distinct objects, as they are in RenderedInstance.
ChannelCalls ==
  { [ kind |-> "channel", channel |-> ch, curve |-> c, time_delta |-> t,
      before |-> v, value |-> v, default_value |-> d, before_default |-> d,
      returns |-> None, raised |-> None, done |-> FALSE ] :
      ch \in {"position", "rotation"}, c \in CurveObjs,
      t \in TimeDeltas, v \in Vectors, d \in Vectors }
  \cup
  { [ kind |-> "channel", channel |-> ch, curve |-> c, time_delta |-> t,
      before |-> v, value |-> v, default_value |-> d, before_default |-> d,
      returns |-> None, raised |-> None, done |-> FALSE ] :
      ch \in {"scale", "opacity"}, c \in CurveObjs,
      t \in TimeDeltas, v \in Floats, d \in Floats }

\* the pops of the two buffers that are followed after one update
MaxPops == 2

\* the clock at the first call of update, in seconds from the start_datetime
\* of the curves: the instance is rendered before its curve starts, or as it
\* starts
FirstUpdates == {-2, 0}

\* The calls of RenderedInstance.update on a rendered instance whose instance
\* holds one curve: the instance is constructed with the curve and its
\* initial position is what earlier curves have folded into it.  `popped` is
\* what the pops since the last update have returned.  The curve has a
\* factorial for every term of its tables (no call of a try_update method
\* raises inside update).
UpdateCalls ==
  { [ kind |-> "update",
      self |-> [NewRenderedInstance("i1") EXCEPT !.initial_position = v],
      list |-> <<c>>, base |-> v, utc_now |-> t, updates |-> 0,
      popped |-> <<>> ] :
      c \in CurveObjs \ {"c7"}, v \in Vectors, t \in FirstUpdates }

\* The twelve-term tables are evaluated at the integer times up to 2: the
\* table is short enough for a time that is not an integer
ShortTable(call) ==
  call.time_delta[2] = 1 \/ Len(DeltasOf(call.curve, call.channel)) <= 3

\* the table is short enough for the time 3
SmallTable(call) ==
  call.time_delta[1] <= 2 \/ Len(DeltasOf(call.curve, call.channel)) <= 3

InitEval ==
  /\ InitEngine
  /\ evaluation \in {call \in ChannelCalls : ShortTable(call) /\ SmallTable(call)}
                      \cup UpdateCalls

\* Curve.try_update_position, try_update_rotation, try_update_scale or
\* try_update_opacity is called
EvaluateChannel ==
  /\ evaluation.kind = "channel"
  /\ ~evaluation.done
  /\ LET call == evaluation
         vector_result ==
           IF call.channel = "position"
           THEN try_update_position(call.curve, call.time_delta, call.value,
                                    call.default_value)
           ELSE try_update_rotation(call.curve, call.time_delta, call.value,
                                    call.default_value)
         float_result ==
           IF call.channel = "scale"
           THEN try_update_scale(call.curve, call.time_delta, call.value,
                                 call.default_value)
           ELSE try_update_opacity(call.curve, call.time_delta, call.value,
                                   call.default_value)
     IN evaluation' =
          IF call.channel \in {"position", "rotation"}
          THEN [call EXCEPT !.value = vector_result.vector,
                            !.default_value = vector_result.default_vector,
                            !.returns = vector_result.returns,
                            !.raised = vector_result.raised,
                            !.done = TRUE]
          ELSE [call EXCEPT !.value = float_result.float_reference,
                            !.default_value = float_result.default_float_reference,
                            !.returns = float_result.returns,
                            !.raised = float_result.raised,
                            !.done = TRUE]
  /\ UNCHANGED <<is_client, mouse_vars, on_event_callable_per_event_type,
                 instance_per_instance_uuid, rendered_instance_per_instance_uuid,
                 rendered_instances_per_event_type, to_remove_rendered_instance,
                 rendered, parallel_curves, text, now, raised, handled,
                 found_exception, task, show_base, disposed>>

\* RenderedInstance.update is called, one second after the call before
UpdateOnce ==
  /\ evaluation.kind = "update"
  /\ evaluation.updates < MaxUpdates
  /\ LET u == update(evaluation.self, evaluation.list, evaluation.utc_now + 1)
     IN /\ u.raised = None
        /\ evaluation' = [evaluation EXCEPT
                            !.self = u.self, !.list = u.list,
                            !.base = evaluation.self.initial_position,
                            !.utc_now = @ + 1, !.updates = @ + 1,
                            !.popped = <<>>]
  /\ UNCHANGED <<is_client, mouse_vars, on_event_callable_per_event_type,
                 instance_per_instance_uuid, rendered_instance_per_instance_uuid,
                 rendered_instances_per_event_type, to_remove_rendered_instance,
                 rendered, parallel_curves, text, now, raised, handled,
                 found_exception, task, show_base, disposed>>

\* The task pops the two buffers of the rendered instance, as it does after
\* update, and once more
PopBuffers ==
  /\ evaluation.kind = "update"
  /\ Len(evaluation.popped) < MaxPops
  /\ LET completed == pop_completed_curve_uuids(evaluation.self)
         removed == pop_is_active_instance_removed_event(completed.self)
     IN evaluation' =
          [evaluation EXCEPT
             !.self = removed.self,
             !.popped = Append(@, [ completed_curve_uuids |-> completed.returns,
                                    removed |-> removed.returns ])]
  /\ UNCHANGED <<is_client, mouse_vars, on_event_callable_per_event_type,
                 instance_per_instance_uuid, rendered_instance_per_instance_uuid,
                 rendered_instances_per_event_type, to_remove_rendered_instance,
                 rendered, parallel_curves, text, now, raised, handled,
                 found_exception, task, show_base, disposed>>

NextEval == EvaluateChannel \/ UpdateOnce \/ PopBuffers

SpecEval == InitEval /\ [][NextEval]_vars

\* ------------------------------------------------------- to_json, parse_json
\* The to_json methods and the parse_json static methods, called on their own.
\* A Python object is a record of its attributes, an enum member is its name,
\* a json dict is a record of its keys, and a result is [value, raised].

\* the depth of calls at which the interpreter raises RecursionError
RecursionLimit == 4

EventTypeEnumValues ==
  [ Collision |-> "collision", CurveCompleted |-> "curve_completed",
    Key |-> "key", MouseMoved |-> "mouse_moved" ]

InstanceTypeEnumValues ==
  [ Model |-> "model", Text |-> "text", Image |-> "image", Camera |-> "camera" ]

InstanceDeltaTypeEnumValues ==
  [ AppendParallelCurves |-> "append_parallel_curves",
    SetParallelCurves |-> "set_parallel_curves", SetText |-> "set_text" ]

\* <Enum>(value): the member with that value; the enum raises ValueError
\* when there is none
EnumMember(values, value) ==
  IF \E m \in DOMAIN values : values[m] = value
  THEN [value |-> CHOOSE m \in DOMAIN values : values[m] = value, raised |-> None]
  ELSE [value |-> None, raised |-> "ValueError"]

\* [<Enum>(x) for x in list]
EnumMembers(values, list) ==
  IF \A k \in 1..Len(list) : EnumMember(values, list[k]).raised = None
  THEN [value |-> [k \in 1..Len(list) |-> EnumMember(values, list[k]).value],
        raised |-> None]
  ELSE [value |-> None, raised |-> "ValueError"]

\* the decimal digits of n, the last `width` of them, zero-padded
RECURSIVE Digits(_, _)
Digits(n, width) ==
  IF width = 0 THEN <<>> ELSE Append(Digits(n \div 10, width - 1), n % 10)

\* the decimal digits of n without padding
RECURSIVE DigitsUnpadded(_)
DigitsUnpadded(n) ==
  IF n < 10 THEN <<n>> ELSE Append(DigitsUnpadded(n \div 10), n % 10)

\* the number the digits spell
RECURSIVE DigitsValue(_)
DigitsValue(digits) ==
  IF digits = <<>> THEN 0
  ELSE 10 * DigitsValue(SubSeq(digits, 1, Len(digits) - 1)) + digits[Len(digits)]

\* A variant of strftime whose fraction is not zero-padded
strftime_unpadded(datetime) ==
  [ seconds |-> datetime.second, fraction |-> DigitsUnpadded(datetime.microsecond) ]

\* datetime.strftime("%Y-%m-%d %H:%M:%S.%f") of a naive datetime: the text up
\* to the point (kept as the second it spells) and the six digits of %f
strftime(datetime) ==
  [ seconds |-> datetime.second, fraction |-> Digits(datetime.microsecond, 6) ]

\* datetime.strptime(text, "%Y-%m-%d %H:%M:%S.%f"): %f takes one to six digits
\* and reads them as the leading digits of the microsecond
strptime(date_string) ==
  IF Len(date_string.fraction) \notin 1..6
  THEN [value |-> None, raised |-> "ValueError"]
  ELSE [value |->
          [ second |-> date_string.seconds,
            microsecond |->
              DigitsValue(date_string.fraction
                            \o [k \in 1..(6 - Len(date_string.fraction)) |-> 0]) ],
        raised |-> None]

\* Curve.to_json
Curve_to_json(curve) ==
  [ curve_uuid |-> curve.curve_uuid,
    position_deltas |-> curve.position_deltas,
    rotation_deltas |-> curve.rotation_deltas,
    scale_deltas |-> curve.scale_deltas,
    opacity_deltas |-> curve.opacity_deltas,
    effective_time_seconds |-> curve.effective_time_seconds,
    is_controller_event_triggered_on_completed |->
      curve.is_controller_event_triggered_on_completed,
    start_datetime |-> strftime(curve.start_datetime),
    is_instance_removed_on_curve_completed |->
      curve.is_instance_removed_on_curve_completed,
    restart_after_seconds |-> curve.restart_after_seconds ]

\* Curve.parse_json
Curve_parse_json(json_dict) ==
  LET start_datetime == strptime(json_dict.start_datetime)
  IN IF start_datetime.raised # None
     THEN [value |-> None, raised |-> start_datetime.raised]
     ELSE [value |->
             [ curve_uuid |-> json_dict.curve_uuid,
               position_deltas |-> json_dict.position_deltas,
               rotation_deltas |-> json_dict.rotation_deltas,
               scale_deltas |-> json_dict.scale_deltas,
               opacity_deltas |-> json_dict.opacity_deltas,
               effective_time_seconds |-> json_dict.effective_time_seconds,
               is_controller_event_triggered_on_completed |->
                 json_dict.is_controller_event_triggered_on_completed,
               start_datetime |-> start_datetime.value,
               is_instance_removed_on_curve_completed |->
                 json_dict.is_instance_removed_on_curve_completed,
               restart_after_seconds |-> json_dict.restart_after_seconds ],
           raised |-> None]

\* the name of the key that holds the field of the variant
VariantKey(instance_type) ==
  CASE instance_type = "Model" -> "model_uuid"
    [] instance_type = "Text" -> "font_uuid"
    [] instance_type = "Image" -> "image_uuid"
    [] instance_type = "Camera" -> "client_uuid"

\* Instance.to_json, and to_json of the instance's class on top of it
Instance_to_json(instance) ==
  LET json_dict ==
        [ instance_uuid |-> instance.instance_uuid,
          instance_type |-> InstanceTypeEnumValues[instance.instance_type],
          parallel_curves |->
            [k \in 1..Len(instance.parallel_curves) |->
               Curve_to_json(instance.parallel_curves[k])],
          client_event_types |->
            [k \in 1..Len(instance.client_event_types) |->
               EventTypeEnumValues[instance.client_event_types[k]]],
          renderer_event_types |->
            [k \in 1..Len(instance.renderer_event_types) |->
               EventTypeEnumValues[instance.renderer_event_types[k]]],
          owner_render_engine_uuid |-> instance.owner_render_engine_uuid,
          parent_instance_uuid |-> instance.parent_instance_uuid ]
      key == VariantKey(instance.instance_type)
      with_variant == json_dict @@ (key :> instance[key])
  IN IF instance.instance_type = "Text"
     THEN with_variant @@ ("text" :> instance.text)
     ELSE with_variant

\* Instance.parse_json and parse_json of the class it dispatches to
Instance_parse_json(json_dict) ==
  LET instance_type == EnumMember(InstanceTypeEnumValues, json_dict.instance_type)
      curves == [k \in 1..Len(json_dict.parallel_curves) |->
                   Curve_parse_json(json_dict.parallel_curves[k])]
      client_event_types ==
        EnumMembers(EventTypeEnumValues, json_dict.client_event_types)
      renderer_event_types ==
        EnumMembers(EventTypeEnumValues, json_dict.renderer_event_types)
  IN IF instance_type.raised # None
     THEN [value |-> None, raised |-> instance_type.raised]
     ELSE IF VariantKey(instance_type.value) \notin DOMAIN json_dict
     THEN [value |-> None, raised |-> "KeyError"]
     ELSE IF \E k \in 1..Len(curves) : curves[k].raised # None
     THEN [value |-> None, raised |-> "ValueError"]
     ELSE IF client_event_types.raised # None \/ renderer_event_types.raised # None
     THEN [value |-> None, raised |-> "ValueError"]
     ELSE
       LET key == VariantKey(instance_type.value)
           instance ==
             [ instance_uuid |-> json_dict.instance_uuid,
               instance_type |-> instance_type.value,
               parallel_curves |-> [k \in 1..Len(curves) |-> curves[k].value],
               client_event_types |-> client_event_types.value,
               renderer_event_types |-> renderer_event_types.value,
               owner_render_engine_uuid |-> json_dict.owner_render_engine_uuid,
               parent_instance_uuid |-> json_dict.parent_instance_uuid ]
             @@ (key :> json_dict[key])
       IN [value |-> IF instance_type.value = "Text"
                     THEN instance @@ ("text" :> json_dict.text)
                     ELSE instance,
           raised |-> None]

\* RenderedInstanceState.to_json
RenderedInstanceState_to_json(state) ==
  [ instance |-> Instance_to_json(state.instance),
    position |-> state.position, rotation |-> state.rotation,
    scale |-> state.scale, opacity |-> state.opacity ]

\* RenderedInstanceState.parse_json
RenderedInstanceState_parse_json(json_dict) ==
  LET instance == Instance_parse_json(json_dict.instance)
  IN IF instance.raised # None THEN instance
     ELSE [value |-> [ instance |-> instance.value,
                       position |-> json_dict.position,
                       rotation |-> json_dict.rotation,
                       scale |-> json_dict.scale, opacity |-> json_dict.opacity ],
           raised |-> None]

\* Event.to_json, and to_json of the event's class on top of it
Event_to_json(event) ==
  LET json_dict ==
        [ event_uuid |-> event.event_uuid,
          event_type |-> EventTypeEnumValues[event.event_type],
          source_render_engine_uuid |-> event.source_render_engine_uuid,
          rendered_instance_states |->
            [k \in 1..Len(event.rendered_instance_states) |->
               RenderedInstanceState_to_json(event.rendered_instance_states[k])],
          triggered_datetime |-> strftime(event.triggered_datetime) ]
  IN IF event.event_type = "CurveCompleted"
     THEN json_dict @@ ("curve_uuid" :> event.curve_uuid)
     ELSE json_dict @@ [ mouse_x_delta |-> event.mouse_x_delta,
                         mouse_y_delta |-> event.mouse_y_delta,
                         time_delta |-> event.time_delta ]

\* Event.parse_json and parse_json of the class it dispatches to
Event_parse_json(json_dict) ==
  LET event_type == EnumMember(EventTypeEnumValues, json_dict.event_type)
      states == [k \in 1..Len(json_dict.rendered_instance_states) |->
                   RenderedInstanceState_parse_json(
                     json_dict.rendered_instance_states[k])]
      triggered_datetime == strptime(json_dict.triggered_datetime)
  IN IF event_type.raised # None
     THEN [value |-> None, raised |-> event_type.raised]
     ELSE IF event_type.value \notin {"CurveCompleted", "MouseMoved"}
     THEN [value |-> None, raised |-> "NotImplementedError"]
     ELSE IF \E k \in 1..Len(states) : states[k].raised # None
     THEN [value |-> None, raised |-> "ValueError"]
     ELSE IF triggered_datetime.raised # None
     THEN [value |-> None, raised |-> triggered_datetime.raised]
     ELSE
       LET event ==
             [ event_uuid |-> json_dict.event_uuid,
               event_type |-> event_type.value,
               source_render_engine_uuid |-> json_dict.source_render_engine_uuid,
               rendered_instance_states |->
                 [k \in 1..Len(states) |-> states[k].value],
               triggered_datetime |-> triggered_datetime.value ]
       IN [value |->
             IF event_type.value = "CurveCompleted"
             THEN event @@ ("curve_uuid" :> json_dict.curve_uuid)
             ELSE event @@ [ mouse_x_delta |-> json_dict.mouse_x_delta,
                             mouse_y_delta |-> json_dict.mouse_y_delta,
                             time_delta |-> json_dict.time_delta ],
           raised |-> None]

\* InstanceDelta.to_json: the three delta classes define no to_json of their
\* own, so this is the method every delta has
InstanceDelta_to_json(instance_delta) ==
  [ instance_delta_uuid |-> instance_delta.instance_delta_uuid,
    instance_delta_type |->
      InstanceDeltaTypeEnumValues[instance_delta.instance_delta_type],
    instance_uuid |-> instance_delta.instance_uuid ]

\* InstanceDelta.parse_json at call depth `depth`.  The three delta classes
\* define no parse_json of their own, so <class>.parse_json in each branch is
\* InstanceDelta.parse_json again.
RECURSIVE InstanceDelta_parse_json(_, _)
InstanceDelta_parse_json(json_dict, depth) ==
  LET instance_delta_type ==
        EnumMember(InstanceDeltaTypeEnumValues, json_dict.instance_delta_type)
  IN IF depth > RecursionLimit
     THEN [value |-> None, raised |-> "RecursionError"]
     ELSE IF instance_delta_type.raised # None
     THEN [value |-> None, raised |-> instance_delta_type.raised]
     ELSE InstanceDelta_parse_json(json_dict, depth + 1)

\* the microsecond parts of the datetimes the objects below carry
Microseconds == {0, 5, 120000, 999999}

\* a naive datetime, as datetime.utcnow() and the test's curves give
Datetime(second, microsecond) == [second |-> second, microsecond |-> microsecond]

\* Curve.__init__ on the entry of the curve table, restart_after_seconds None
CurveObject(c, microsecond) ==
  [ curve_uuid |-> Curves[c].curve_uuid,
    position_deltas |-> Curves[c].position_deltas,
    rotation_deltas |-> Curves[c].rotation_deltas,
    scale_deltas |-> Curves[c].scale_deltas,
    opacity_deltas |-> Curves[c].opacity_deltas,
    effective_time_seconds |-> Curves[c].effective_time_seconds,
    is_controller_event_triggered_on_completed |->
      Curves[c].is_controller_event_triggered_on_completed,
    start_datetime |-> Datetime(Curves[c].start_datetime, microsecond),
    is_instance_removed_on_curve_completed |->
      Curves[c].is_instance_removed_on_curve_completed,
    restart_after_seconds |-> None ]

\* ModelInstance, TextInstance, ImageInstance or CameraInstance.__init__
NewInstance(instance_type, instance_uuid, resource, curves, client, renderer, parent) ==
  LET instance ==
        [ instance_uuid |-> instance_uuid,
          instance_type |-> instance_type,
          parallel_curves |-> curves,
          client_event_types |-> client,
          renderer_event_types |-> renderer,
          owner_render_engine_uuid |-> render_engine_uuid,
          parent_instance_uuid |-> parent ]
        @@ (VariantKey(instance_type) :> resource)
  IN IF instance_type = "Text" THEN instance @@ ("text" :> "hello") ELSE instance

\* the instance object o of the instance table, as a Python object
InstanceObject(o, microsecond) ==
  NewInstance(EnumMember(InstanceTypeEnumValues, Instances[o].instance_type).value,
              Instances[o].instance_uuid, Instances[o].resource,
              [k \in 1..Len(Instances[o].curves0) |->
                 CurveObject(Instances[o].curves0[k], microsecond)],
              EnumMembers(EventTypeEnumValues, Instances[o].client_event_types).value,
              EnumMembers(EventTypeEnumValues, Instances[o].renderer_event_types).value,
              Instances[o].parent_instance_uuid)

\* an ImageInstance with two curves and both subscription lists filled
ImageObject(microsecond) ==
  NewInstance("Image", "d", "picture",
              <<CurveObject("c5", microsecond), CurveObject("c1", 0)>>,
              <<"Key", "MouseMoved">>, <<"Collision">>, "a")

InstanceObjects ==
  {InstanceObject(o, m) : o \in InstObjs, m \in {0, 5}}
    \cup {ImageObject(m) : m \in {0, 5}}

\* RenderedInstanceState.__init__
StateOf(instance) ==
  [ instance |-> instance, position |-> <<0, 5, -1>>, rotation |-> <<1, 0, 0>>,
    scale |-> 2, opacity |-> 1 ]

\* CurveCompletedEvent.__init__ and MouseMovedEvent.__init__
EventObjects ==
  { [ event_uuid |-> "e1", event_type |-> "CurveCompleted",
      source_render_engine_uuid |-> render_engine_uuid,
      rendered_instance_states |-> states,
      triggered_datetime |-> Datetime(1, m), curve_uuid |-> "u1" ]
      : states \in {<<>>, <<StateOf(InstanceObject("i1", 5)),
                            StateOf(InstanceObject("i4", 0))>>},
        m \in Microseconds }
    \cup
  { [ event_uuid |-> "e2", event_type |-> "MouseMoved",
      source_render_engine_uuid |-> render_engine_uuid,
      rendered_instance_states |-> states,
      triggered_datetime |-> Datetime(2, m),
      mouse_x_delta |-> 1, mouse_y_delta |-> -1, time_delta |-> 1 ]
      : states \in {<<>>, <<StateOf(InstanceObject("i3", 0)),
                            StateOf(ImageObject(5))>>},
        m \in Microseconds }

\* AppendParallelCurvesInstanceDelta, SetParallelCurvesInstanceDelta and
\* SetTextInstanceDelta.__init__ on the entries of the delta table
InstanceDeltaObjects ==
  { [ instance_delta_uuid |-> "d1",
      instance_delta_type |->
        EnumMember(InstanceDeltaTypeEnumValues, d.instance_delta_type).value,
      instance_uuid |-> d.instance_uuid,
      parallel_curves |->
        [k \in 1..Len(d.parallel_curves) |-> CurveObject(d.parallel_curves[k], 0)],
      text |-> d.text ] : d \in Deltas }

\* the objects to_json is called on
JsonInputs ==
  { [kind |-> "json", class |-> "Curve", stage |-> "object",
     object |-> CurveObject(c, m), json_dict |-> None, parsed |-> None]
      : c \in CurveObjs, m \in Microseconds }
    \cup
  { [kind |-> "json", class |-> "Instance", stage |-> "object",
     object |-> i, json_dict |-> None, parsed |-> None] : i \in InstanceObjects }
    \cup
  { [kind |-> "json", class |-> "Event", stage |-> "object",
     object |-> e, json_dict |-> None, parsed |-> None] : e \in EventObjects }
    \cup
  { [kind |-> "json", class |-> "InstanceDelta", stage |-> "object",
     object |-> d, json_dict |-> None, parsed |-> None] : d \in InstanceDeltaObjects }

InitJson ==
  /\ InitEngine
  /\ evaluation \in JsonInputs

\* <object>.to_json() is called
ToJson ==
  /\ evaluation.kind = "json"
  /\ evaluation.stage = "object"
  /\ evaluation' =
       [evaluation EXCEPT
          !.stage = "json",
          !.json_dict =
            CASE evaluation.class = "Curve" -> Curve_to_json(evaluation.object)
              [] evaluation.class = "Instance" -> Instance_to_json(evaluation.object)
              [] evaluation.class = "Event" -> Event_to_json(evaluation.object)
              [] evaluation.class = "InstanceDelta" ->
                   InstanceDelta_to_json(evaluation.object)]
  /\ UNCHANGED <<is_client, mouse_vars, on_event_callable_per_event_type,
                 instance_per_instance_uuid, rendered_instance_per_instance_uuid,
                 rendered_instances_per_event_type, to_remove_rendered_instance,
                 rendered, parallel_curves, text, now, raised, handled,
                 found_exception, task, show_base, disposed>>

\* <class>.parse_json(json_dict=...) is called on the dict to_json returned
ParseJson ==
  /\ evaluation.kind = "json"
  /\ evaluation.stage = "json"
  /\ evaluation' =
       [evaluation EXCEPT
          !.stage = "parsed",
          !.parsed =
            CASE evaluation.class = "Curve" -> Curve_parse_json(evaluation.json_dict)
              [] evaluation.class = "Instance" ->
                   Instance_parse_json(evaluation.json_dict)
              [] evaluation.class = "Event" -> Event_parse_json(evaluation.json_dict)
              [] evaluation.class = "InstanceDelta" ->
                   InstanceDelta_parse_json(evaluation.json_dict, 1)]
  /\ UNCHANGED <<is_client, mouse_vars, on_event_callable_per_event_type,
                 instance_per_instance_uuid, rendered_instance_per_instance_uuid,
                 rendered_instances_per_event_type, to_remove_rendered_instance,
                 rendered, parallel_curves, text, now, raised, handled,
                 found_exception, task, show_base, disposed>>

NextJson == ToJson \/ ParseJson

SpecJson == InitJson /\ [][NextJson]_vars

\* ------------------------------------------------------- __mouse_move_task
\* The task manager runs __mouse_move_task on the thread of the update task,
\* between two runs of it, while the on_start_callable renders instances from
\* its own thread and the user moves the pointer.

\* the handler invocations after which the mouse task is no longer followed
MaxMouseEvents == 1

\* the states of mouseWatcherNode: the pointer outside the window, or at a
\* position inside it
Pointers ==
  {NoMouse} \cup {[hasMouse |-> TRUE, mouse_x |-> p[1], mouse_y |-> p[2]] :
                     p \in {<<0, 0>>, <<0, 1>>, <<1, 1>>}}

\* the batches the MouseMoved handler passes to apply_instance_deltas (the
\* empty one: it makes no call)
HandlerBatches ==
  {<<>>} \cup {<<d>> : d \in {x \in Deltas : x.instance_delta_type # "set_parallel_curves"}}

\* A variant of mouse_move_task that compares the x coordinate only
mouse_move_task_x_only(mouse, node, task_time, states, utc_now) ==
  LET moved == node.hasMouse /\ mouse.previous_mouse_x # node.mouse_x
  IN [ previous_mouse_x |-> IF moved THEN node.mouse_x ELSE mouse.previous_mouse_x,
       previous_mouse_y |-> IF moved THEN node.mouse_y ELSE mouse.previous_mouse_y,
       previous_mouse_time |-> task_time,
       events |->
         IF moved
         THEN << [ event_type |-> "mouse_moved",
                   mouse_x_delta |-> node.mouse_x - mouse.previous_mouse_x,
                   mouse_y_delta |-> node.mouse_y - mouse.previous_mouse_y,
                   time_delta |-> task_time - mouse.previous_mouse_time,
                   rendered_instance_states |-> states,
                   triggered_datetime |-> utc_now ] >>
         ELSE <<>> ]

\* RenderEngine.__mouse_move_task up to the call of the handler: the three
\* fields afterwards and the MouseMovedEvent constructed, if any
mouse_move_task(mouse, node, task_time, states, utc_now) ==
  LET moved == /\ node.hasMouse
               /\ \/ mouse.previous_mouse_x # node.mouse_x
                  \/ mouse.previous_mouse_y # node.mouse_y
  IN [ previous_mouse_x |-> IF moved THEN node.mouse_x ELSE mouse.previous_mouse_x,
       previous_mouse_y |-> IF moved THEN node.mouse_y ELSE mouse.previous_mouse_y,
       previous_mouse_time |-> task_time,
       events |->
         IF moved
         THEN << [ event_type |-> "mouse_moved",
                   mouse_x_delta |-> node.mouse_x - mouse.previous_mouse_x,
                   mouse_y_delta |-> node.mouse_y - mouse.previous_mouse_y,
                   time_delta |-> task_time - mouse.previous_mouse_time,
                   rendered_instance_states |-> states,
                   triggered_datetime |-> utc_now ] >>
         ELSE <<>> ]

\* A variant of InvokeMouseMoved in which the handler's deltas are put aside
\* for a later tick instead of being applied
InvokeMouseMovedQueued(e, event, instance_deltas) ==
  [e EXCEPT !.handled = Append(@, [event EXCEPT !.instance_deltas = instance_deltas])]

\* The handler registered for MouseMoved is invoked with the event and calls
\* apply_instance_deltas with the batch given; an exception of the call leaves
\* the handler and the task
InvokeMouseMoved(e, event, instance_deltas) ==
  LET res == apply_instance_deltas(e, instance_deltas)
  IN [res.engine EXCEPT
        !.handled = Append(@, [event EXCEPT !.instance_deltas = instance_deltas]),
        !.raised = res.error]

\* the user moves the pointer, into the window, inside it or out of it
MovePointer ==
  /\ show_base.running
  /\ \E node \in Pointers :
       /\ node # show_base.mouseWatcherNode
       /\ show_base' = [show_base EXCEPT !.mouseWatcherNode = node]
  /\ UNCHANGED <<is_client, mouse_vars, on_event_callable_per_event_type,
                 instance_per_instance_uuid, rendered_instance_per_instance_uuid,
                 rendered_instances_per_event_type, to_remove_rendered_instance,
                 rendered, parallel_curves, text, now, raised, handled,
                 found_exception, task, disposed, evaluation>>

\* One run of RenderEngine.__mouse_move_task, whole.  task.time and utcnow()
\* are read from the clock of the model.
MouseMoveTask ==
  /\ show_base.running
  /\ raised = None
  /\ task.pc = "idle"
  /\ LET m == mouse_move_task(
                [ previous_mouse_x |-> previous_mouse_x,
                  previous_mouse_y |-> previous_mouse_y,
                  previous_mouse_time |-> previous_mouse_time ],
                show_base.mouseWatcherNode, now,
                get_rendered_instance_states_by_event_type(Engine, "mouse_moved"),
                now)
     IN /\ previous_mouse_x' = m.previous_mouse_x
        /\ previous_mouse_y' = m.previous_mouse_y
        /\ previous_mouse_time' = m.previous_mouse_time
        /\ IF m.events # <<>> /\ "mouse_moved" \in on_event_callable_per_event_type
           THEN /\ Len(handled) < MaxMouseEvents
                /\ \E instance_deltas \in HandlerBatches :
                     LET e == InvokeMouseMoved(
                                Engine,
                                m.events[1] @@ [instance_deltas |-> <<>>],
                                instance_deltas)
                     IN /\ \A o \in InstObjs : Len(e.parallel_curves[o]) <= MaxCurves
                        /\ Becomes(e)
           ELSE Becomes(Engine)
  /\ UNCHANGED <<is_client, show_base, disposed, evaluation,
                 on_event_callable_per_event_type, now, found_exception, task>>

\* the batches the on_start_callable renders while the mouse task is followed
MouseBatches == { <<"i1">>, <<"i4">>, <<"i1", "i2">> }

\* The on_start_callable calls render_instances(instances=...), once, as the
\* first thing it does
RenderForMouse ==
  /\ DOMAIN rendered = {}
  /\ \E instances \in MouseBatches : RenderInstancesOf(instances)

NextMouse == RenderForMouse \/ Tick \/ MovePointer \/ MouseMoveTask

SpecMouse == Init /\ [][NextMouse]_vars

\* ------------------------------------------- client and renderer engines
\* RenderEngine.__init__ with either value of is_client
InitHost == is_client \in BOOLEAN /\ InitRegistries /\ evaluation = NoEvaluation

\* the batch of deltas the on_start_callable applies to the text i4: its
\* curve c3 is replaced by the zero-duration c4
HostDeltaBatches ==
  { << [instance_delta_type |-> "set_parallel_curves", instance_uuid |-> "c",
        parallel_curves |-> <<"c4">>, text |-> None] >> }

\* The on_start_callable calls apply_instance_deltas(instance_deltas=...)
ApplyHostDeltas ==
  \E instance_deltas \in HostDeltaBatches : ApplyInstanceDeltasOf(instance_deltas)

\* the on_start_callable renders and applies deltas, and the task ticks
NextHost == RenderInstances \/ ApplyHostDeltas \/ Tick

SpecHost == InitHost /\ [][NextHost]_vars

\* ------------------------------------------------ vocabulary of the claims
\* the rendered instance registered under an id, its instance object and the
\* instance's active curves
RenderedOf(id) == rendered[rendered_instance_per_instance_uuid[id]]

ActiveCurvesOf(id) == parallel_curves[RenderedOf(id).instance]

\* curve c reaches its completion in an update at time t: it has started, has
\* a non-zero duration, and its elapsed time equals effective_time_seconds
Completes(c, t) ==
  /\ Curves[c].start_datetime <= t
  /\ Curves[c].effective_time_seconds # 0
  /\ get_calculated_time_delta(Curves[c].start_datetime,
                               Curves[c].effective_time_seconds, t)
       = Curves[c].effective_time_seconds

\* curve c has effective_time_seconds = 0 and expires in an update at time t
Expires(c, t) ==
  Curves[c].start_datetime <= t /\ Curves[c].effective_time_seconds = 0

\* the handler invocations of the tick at time t that carry curve uuid u
Invocations(h, u, t) ==
  {k \in 1..Len(h) : h[k].curve_uuid = u /\ h[k].triggered_datetime = t}

\* a step of the tick task (it alone moves the clock)
IsTick == now' # now

\* ------------------------------------------------------------------ C1
\* C1: in a tick in which curves complete while a CurveCompleted handler is
\* registered, the handler is invoked exactly once for each completed curve
\* id, with an event that carries that id.
C1_OneEventPerCompletedCurve ==
  [][ (IsTick /\ "curve_completed" \in on_event_callable_per_event_type) =>
        \A id \in DOMAIN rendered_instance_per_instance_uuid :
          \A c \in Range(ActiveCurvesOf(id)) :
            (Completes(c, now')
               /\ Curves[c].is_controller_event_triggered_on_completed)
              => Cardinality(Invocations(handled', Curves[c].curve_uuid, now')) = 1
    ]_vars

\* ------------------------------------------------------------------ C2
\* C2: the CurveCompleted handler is never invoked for the same curve id in
\* two different ticks.
C2_NoCurveIdInTwoTicks ==
  \A j, k \in 1..Len(handled) :
    handled[j].curve_uuid = handled[k].curve_uuid
      => handled[j].triggered_datetime = handled[k].triggered_datetime

\* the curve u1, which asks for the completion event, was listed twice on the
\* instance under "a" and has completed there in the first tick (folded twice)
\* and again in the second (folded once more), with a handler registered
C2_Witness ==
  /\ "curve_completed" \in on_event_callable_per_event_type
  /\ now = 2
  /\ "a" \in DOMAIN rendered_instance_per_instance_uuid
  /\ Curves["c1"].is_controller_event_triggered_on_completed
  /\ RenderedOf("a").folded["c1"] = 3
  /\ ActiveCurvesOf("a") = <<>>

\* ------------------------------------------------------------------ C3
\* C3: each curve's contribution is folded into the base accumulator of its
\* instance at most once.
C3_FoldedAtMostOnce ==
  \A ri \in DOMAIN rendered : \A c \in CurveObjs : rendered[ri].folded[c] <= 1

\* ------------------------------------------------------------------ C4
\* C4: when update returns, no curve that reached completion in that update
\* is still a member of the instance's active curves.
C4_CompletedCurveRemoved ==
  [][ IsTick =>
        \A id \in DOMAIN rendered_instance_per_instance_uuid :
          \A c \in Range(ActiveCurvesOf(id)) :
            Completes(c, now')
              => c \notin Range(parallel_curves'[RenderedOf(id).instance])
    ]_vars

\* ------------------------------------------------------------------ C5
\* C5: every rendered instance found in a bucket of the reverse index is the
\* rendered instance currently registered under its instance id.
C5_BucketsHoldRegistered ==
  \A t \in EventTypeEnum : \A ri \in rendered_instances_per_event_type[t] :
    LET id == Instances[rendered[ri].instance].instance_uuid
    IN /\ id \in DOMAIN rendered_instance_per_instance_uuid
       /\ rendered_instance_per_instance_uuid[id] = ri

\* ------------------------------------------------------------------ C6
\* C6: in the tick in which a curve with remove_instance_on_complete = true
\* completes on an instance, the instance is removed from both registries
\* before the tick ends.
C6_RemovedInCompletingTick ==
  [][ IsTick =>
        \A id \in DOMAIN rendered_instance_per_instance_uuid :
          (\E c \in Range(ActiveCurvesOf(id)) :
              /\ Completes(c, now')
              /\ Curves[c].is_instance_removed_on_curve_completed)
            => /\ id \notin DOMAIN rendered_instance_per_instance_uuid'
               /\ id \notin DOMAIN instance_per_instance_uuid'
    ]_vars

\* ------------------------------------------------------------------ C7
\* C7 as claimed: an instance is destroyed by the tick in which one of its
\* curves with effective_time_seconds = 0 expires.
C7_ExpiryRemovesInstance ==
  [][ IsTick =>
        \A id \in DOMAIN rendered_instance_per_instance_uuid :
          (\E c \in Range(ActiveCurvesOf(id)) : Expires(c, now'))
            => /\ id \notin DOMAIN rendered_instance_per_instance_uuid'
               /\ id \notin DOMAIN instance_per_instance_uuid'
    ]_vars

\* C7 amended: a tick takes an instance out of a registry only if one of the
\* curves it removes from the instance in that tick (expired or completed)
\* has remove_instance_on_complete = true; the expiry of a zero-duration
\* curve whose flag is false leaves the instance in both registries.
C7_RemovedOnlyByFlaggedCurve ==
  [][ IsTick =>
        \A id \in DOMAIN rendered_instance_per_instance_uuid :
          (\/ id \notin DOMAIN rendered_instance_per_instance_uuid'
           \/ id \notin DOMAIN instance_per_instance_uuid')
            => \E c \in Range(ActiveCurvesOf(id)) :
                 /\ Expires(c, now') \/ Completes(c, now')
                 /\ Curves[c].is_instance_removed_on_curve_completed
    ]_vars

\* a zero-duration curve has expired on a registered instance (a curve that
\* asks for the event was removed although nothing was ever folded), the flag
\* of the curve was false, and the instance is still in both registries
C7_Witness ==
  \E id \in DOMAIN rendered_instance_per_instance_uuid :
    /\ id \in DOMAIN instance_per_instance_uuid
    /\ RenderedOf(id).is_active_curve_completed_event
    /\ \A c \in CurveObjs : RenderedOf(id).folded[c] = 0
    /\ ActiveCurvesOf(id) = <<>>

UnknownAt(instance_deltas) ==
  {k \in 1..Len(instance_deltas) :
     instance_deltas[k].instance_uuid \notin DOMAIN instance_per_instance_uuid}

\* C10: apply_instance_deltas never gets past the first delta whose instance
\* id is not in the instance registry: the call raises, at that delta with a
\* lookup error (or at an earlier delta that failed on its own); the deltas
\* after the one that raised are not applied, and the effects of the deltas
\* before it are kept.
C10_StopsAtUnknownInstance ==
  [][ \A instance_deltas \in DeltaBatches :
        (UnknownAt(instance_deltas) # {} /\ ApplyInstanceDeltasOf(instance_deltas))
          => LET first == CHOOSE k \in UnknownAt(instance_deltas) :
                            \A j \in UnknownAt(instance_deltas) : k <= j
                 at == found_exception'.at
                 before == apply_instance_deltas(
                             Engine, SubSeq(instance_deltas, 1, at - 1))
             IN /\ found_exception'.error # None
                /\ 1 <= at /\ at <= first
                /\ at = first => found_exception'.error = "KeyError"
                /\ before.error = None
                /\ parallel_curves' = before.engine.parallel_curves
                /\ text' = before.engine.text
    ]_vars

\* a batch has failed with a lookup error at its second delta (the id "c" is
\* not registered) and the curve its first delta appended is in place
C10_Witness ==
  /\ found_exception = [error |-> "KeyError", at |-> 2]
  /\ "c" \notin DOMAIN instance_per_instance_uuid
  /\ "a" \in DOMAIN instance_per_instance_uuid
  /\ parallel_curves[instance_per_instance_uuid["a"]] = <<"c1", "c1">>

\* ------------------------------------------------------------------ C8
\* C8: a call of the on_start_callable is never applied while a run of the
\* task is in progress: between the start of the task's iteration and the
\* commit of its removals, a step that is not the task's own changes neither
\* the instance registry nor the active curves of any instance.
C8_NoMutationDuringTick ==
  [][ (task.pc # "idle" /\ task' = task) =>
        /\ instance_per_instance_uuid' = instance_per_instance_uuid
        /\ parallel_curves' = parallel_curves
    ]_vars

\* ------------------------------------------------------------------ C11
\* the engine's registries, reverse index and rendered instances
Registries ==
  << instance_per_instance_uuid, rendered_instance_per_instance_uuid,
     rendered_instances_per_event_type, to_remove_rendered_instance, rendered >>

\* C11: a call that applies one SetText delta to a registered instance that
\* is not a TextInstance raises an error and changes neither the active
\* curves nor the text of any instance nor a registry; applied to a
\* TextInstance it raises nothing, sets the text of that instance and changes
\* nothing else.
C11_SetTextOnlyOnText ==
  [][ \A d \in {x \in Deltas : x.instance_delta_type = "set_text"} :
        (/\ d.instance_uuid \in DOMAIN instance_per_instance_uuid
         /\ ApplyInstanceDeltasOf(<<d>>))
          => LET o == instance_per_instance_uuid[d.instance_uuid]
             IN /\ parallel_curves' = parallel_curves
                /\ Registries' = Registries
                /\ IF Instances[o].instance_type = "text"
                   THEN /\ found_exception'.error = None
                        /\ text' = [text EXCEPT ![o] = d.text]
                   ELSE /\ found_exception' =
                             [error |-> "NotImplementedError", at |-> 1]
                        /\ text' = text
    ]_vars

\* SetText has set the text of the text instance i4, and after the camera i3
\* took over the id a second SetText has failed on it
C11_Witness ==
  /\ text["i4"] = "t1"
  /\ "c" \in DOMAIN instance_per_instance_uuid
  /\ instance_per_instance_uuid["c"] = "i3"
  /\ text["i3"] = "t0"
  /\ found_exception = [error |-> "NotImplementedError", at |-> 1]

\* ------------------------------------------------------------------ C12
\* how often the curve c is an entry of the list
Occurrences(list, c) == Cardinality({k \in 1..Len(list) : list[k] = c})

\* C12: after a call that applies one AppendParallelCurves delta to a
\* registered instance whose active curves held every curve once, the active
\* curves are the union of the curves before and the curves of the delta, and
\* every one of them is a member exactly once.
C12_AppendIsUnion ==
  [][ \A d \in {x \in Deltas : x.instance_delta_type = "append_parallel_curves"} :
        (/\ d.instance_uuid \in DOMAIN instance_per_instance_uuid
         /\ \A c \in CurveObjs :
              Occurrences(parallel_curves[instance_per_instance_uuid[d.instance_uuid]], c) <= 1
         /\ ApplyInstanceDeltasOf(<<d>>))
          => LET o == instance_per_instance_uuid[d.instance_uuid]
             IN /\ Range(parallel_curves'[o])
                     = Range(parallel_curves[o]) \cup Range(d.parallel_curves)
                /\ \A c \in Range(parallel_curves'[o]) :
                     Occurrences(parallel_curves'[o], c) = 1
    ]_vars

\* ------------------------------------------------------------------ C13
\* C13: a call that applies one SetParallelCurves delta to a registered
\* instance leaves it with exactly the curves of the delta, and a curve that
\* is not among the active curves of an instance (discarded, and not appended
\* again) takes no further part: no step folds it into the base of the
\* instance's rendered instance, flags the instance for removal on its
\* account, or invokes the handler with its id.
C13_DiscardedCurveInert ==
  [][ /\ \A d \in {x \in Deltas : x.instance_delta_type = "set_parallel_curves"} :
          (/\ d.instance_uuid \in DOMAIN instance_per_instance_uuid
           /\ ApplyInstanceDeltasOf(<<d>>))
            => parallel_curves'[instance_per_instance_uuid[d.instance_uuid]]
                 = d.parallel_curves
      /\ \A ri \in DOMAIN rendered \cap DOMAIN rendered' :
          LET active == Range(parallel_curves[rendered[ri].instance])
          IN /\ \A c \in CurveObjs \ active :
                  /\ rendered'[ri].folded[c] = rendered[ri].folded[c]
                  /\ Invocations(handled', Curves[c].curve_uuid, now + 1)
                       = Invocations(handled, Curves[c].curve_uuid, now + 1)
             /\ (/\ ~ rendered[ri].is_active_instance_removed_event
                 /\ \/ rendered'[ri].is_active_instance_removed_event
                    \/ ri \in to_remove_rendered_instance' \ to_remove_rendered_instance)
                 => \E c \in active : Curves[c].is_instance_removed_on_curve_completed
    ]_vars

\* ------------------------------------------------------------------ C14
\* the AppendParallelCurves deltas that carry no curve
EmptyAppends ==
  {x \in Deltas : /\ x.instance_delta_type = "append_parallel_curves"
                  /\ x.parallel_curves = <<>>}

\* C14: a call that applies one AppendParallelCurves delta with an empty
\* curve list to a registered instance raises nothing, leaves the active
\* curves of every instance as they are, leaves both registries and the
\* reverse index unchanged and invokes no handler.
C14_EmptyAppendIsNoOp ==
  [][ \A d \in EmptyAppends :
        (/\ d.instance_uuid \in DOMAIN instance_per_instance_uuid
         /\ ApplyInstanceDeltasOf(<<d>>))
          => /\ parallel_curves' = parallel_curves
             /\ Registries' = Registries
             /\ handled' = handled
             /\ found_exception'.error = None
    ]_vars

\* the instance a delta of EmptyAppends names is registered with a curve
\* among its active curves, a handler is registered, and the call that
\* applies the delta can be made
C14_Witness ==
  \E d \in EmptyAppends :
    /\ d.instance_uuid \in DOMAIN instance_per_instance_uuid
    /\ d.instance_uuid \in DOMAIN rendered_instance_per_instance_uuid
    /\ parallel_curves[instance_per_instance_uuid[d.instance_uuid]] # <<>>
    /\ "curve_completed" \in on_event_callable_per_event_type
    /\ ENABLED ApplyInstanceDeltasOf(<<d>>)

\* ------------------------------------------------------------------ C15
\* C15: a curve with effective_time_seconds = 0 that has started is removed
\* from its instance by the first update at or after its start: after a tick
\* that raises nothing the curve is no longer among the active curves of the
\* instance, and the tick has folded nothing of it into the base position.
C15_ZeroDurationRemovedAtOnce ==
  [][ (IsTick /\ raised' = None) =>
        \A id \in DOMAIN rendered_instance_per_instance_uuid :
          \A c \in Range(ActiveCurvesOf(id)) :
            Expires(c, now')
              => LET ri == rendered_instance_per_instance_uuid[id]
                 IN /\ c \notin Range(parallel_curves'[rendered[ri].instance])
                    /\ rendered'[ri].folded[c] = rendered[ri].folded[c]
    ]_vars

\* ------------------------------------------------------------------ C16
\* the positions of a batch whose model, font or image id is not registered
\* with the engine
UnregisteredAt(instances) ==
  {k \in 1..Len(instances) : NodePathFor(instances[k], is_client) = "Exception"}

\* C16: a call of render_instances that reaches the first instance of its
\* batch whose model, font or image id is not registered raises at that
\* instance; every instance before it is in the instance registry, and where
\* a node path was made for it a new rendered instance of it is in the
\* rendered-instance registry and in the bucket of each of its event types;
\* the instances after it leave both registries as they were.
C16_FailsAtUnregisteredResource ==
  [][ \A instances \in InstanceBatches :
        ( /\ now' = now /\ parallel_curves' = parallel_curves /\ text' = text
          /\ UnregisteredAt(instances) # {}
          /\ RenderInstancesOf(instances) )
          => LET first == CHOOSE k \in UnregisteredAt(instances) :
                            \A j \in UnregisteredAt(instances) : k <= j
                 uuid(j) == Instances[instances[j]].instance_uuid
                 reached ==
                   render_instances(Engine, SubSeq(instances, 1, first - 1),
                                    is_client).error = None
             IN reached =>
                  /\ found_exception'.error # None
                  /\ found_exception'.at = first
                  /\ \A j \in 1..(first - 1) :
                       (\A i \in (j + 1)..first : uuid(i) # uuid(j)) =>
                         /\ uuid(j) \in DOMAIN instance_per_instance_uuid'
                         /\ instance_per_instance_uuid'[uuid(j)] = instances[j]
                         /\ NodePathFor(instances[j], is_client) = "node" =>
                              /\ uuid(j) \in DOMAIN rendered_instance_per_instance_uuid'
                              /\ LET ri == rendered_instance_per_instance_uuid'[uuid(j)]
                                 IN /\ ri[1] = instances[j]
                                    /\ ri \notin DOMAIN rendered
                                    /\ \A t \in Range(EventTypesOf(instances[j], is_client)) :
                                         ri \in rendered_instances_per_event_type'[t]
                  /\ \A j \in (first + 1)..Len(instances) :
                       (\A i \in 1..first : uuid(i) # uuid(j)) =>
                         /\ uuid(j) \in DOMAIN instance_per_instance_uuid'
                              <=> uuid(j) \in DOMAIN instance_per_instance_uuid
                         /\ uuid(j) \in DOMAIN instance_per_instance_uuid =>
                              instance_per_instance_uuid'[uuid(j)]
                                = instance_per_instance_uuid[uuid(j)]
                         /\ uuid(j) \in DOMAIN rendered_instance_per_instance_uuid'
                              <=> uuid(j) \in DOMAIN rendered_instance_per_instance_uuid
                         /\ uuid(j) \in DOMAIN rendered_instance_per_instance_uuid =>
                              rendered_instance_per_instance_uuid'[uuid(j)]
                                = rendered_instance_per_instance_uuid[uuid(j)]
                  /\ \A t \in EventTypeEnum : \A ri \in rendered_instances_per_event_type'[t] :
                       ri \notin rendered_instances_per_event_type[t] =>
                         \E j \in 1..(first - 1) : ri[1] = instances[j]
    ]_vars

\* a batch has failed at its second instance, whose model is not registered:
\* the first instance of the batch is registered and indexed, the third is
\* in neither registry
C16_Witness ==
  /\ found_exception = [error |-> "Exception", at |-> 2]
  /\ "a" \in DOMAIN instance_per_instance_uuid
  /\ instance_per_instance_uuid["a"] = "i1"
  /\ "a" \in DOMAIN rendered_instance_per_instance_uuid
  /\ \A t \in Range(EventTypesOf("i1", is_client)) :
       rendered_instance_per_instance_uuid["a"] \in rendered_instances_per_event_type[t]
  /\ "c" \notin DOMAIN instance_per_instance_uuid
  /\ "c" \notin DOMAIN rendered_instance_per_instance_uuid

\* ------------------------------------------------------------------ C17
\* C17: a call of dispose() made when a found exception has been captured
\* raises that exception, and by then the backend has been released and the
\* exit task added.
C17_DisposeRaisesFoundException ==
  [][ (Len(disposed') = Len(disposed) + 1 /\ found_exception.error # None) =>
        /\ disposed'[Len(disposed')].raised = found_exception
        /\ disposed'[Len(disposed')].released
        /\ show_base'.released
        /\ show_base'.exit_tasks = show_base.exit_tasks + 1
        /\ found_exception' = found_exception
    ]_vars

\* dispose() was called twice after a call of the on_start_callable had
\* failed, and both calls raised the exception found
C17_Witness ==
  /\ found_exception.error # None
  /\ Len(disposed) = 2
  /\ disposed[1].raised = found_exception
  /\ disposed[2].raised = found_exception

\* ------------------------------------------------------------------ C18
\* C18: once a call of dispose() has ended, no run of the update task updates
\* a rendered instance, removes a curve or invokes the handler.
C18_NoTickAfterDispose ==
  [][ (disposed # <<>> /\ IsTick) =>
        /\ rendered' = rendered
        /\ parallel_curves' = parallel_curves
        /\ handled' = handled
    ]_vars

\* ------------------------------------------------------------------ C19
\* C19: when update is called on a rendered instance whose only curve has one
\* position term d and a non-zero effective time, and the elapsed time of the
\* curve is in (0, effective_time_seconds], the position written to the node
\* is the initial position before the call plus d.
C19_SingleTermIsConstant ==
  [][ ( /\ evaluation.kind = "update"
        /\ evaluation'.utc_now = evaluation.utc_now + 1
        /\ Len(evaluation.list) = 1 ) =>
        LET c == evaluation.list[1]
            d == Curves[c].position_deltas[1]
            elapsed == get_calculated_time_delta(
                         Curves[c].start_datetime,
                         Curves[c].effective_time_seconds, evaluation'.utc_now)
        IN ( /\ Len(Curves[c].position_deltas) = 1
             /\ Curves[c].effective_time_seconds # 0
             /\ 0 < elapsed /\ elapsed <= Curves[c].effective_time_seconds )
             => evaluation'.self.node_position =
                  [x \in 1..3 |-> RatAdd(evaluation.self.initial_position[x],
                                         RatOf(d[x]))]
    ]_vars

\* update has been called twice on a rendered instance that holds the
\* three-second curve c5 alone, from an initial position that is not the
\* origin, and the node is at the initial position plus (0, 5, -1)
C19_Witness ==
  /\ evaluation.kind = "update"
  /\ evaluation.list = <<"c5">>
  /\ evaluation.updates = 2
  /\ evaluation.base = <<RatOf(1), RatOf(-2), Rat(1, 2)>>
  /\ evaluation.self.node_position = <<RatOf(1), RatOf(3), Rat(-1, 2)>>

\* ------------------------------------------------------------------ C20
\* t to the power k
RECURSIVE RatPower(_, _)
RatPower(t, k) == IF k = 0 THEN RatOf(1) ELSE RatMul(t, RatPower(t, k - 1))

\* k!
RECURSIVE Factorial(_)
Factorial(k) == IF k = 0 THEN 1 ELSE k * Factorial(k - 1)

\* the sum over k = 0..n-1 of coefficient(k) * t^k / k!, the last term first
RECURSIVE TaylorSum(_, _, _)
TaylorSum(coefficient, n, t) ==
  IF n = 0 THEN RatOf(0)
  ELSE RatAdd(TaylorSum(coefficient, n - 1, t),
              RatDiv(RatMul(RatOf(coefficient[n]), RatPower(t, n - 1)),
                     Factorial(n - 1)))

\* C20: one evaluation of a channel with at most twelve delta terms adds the
\* sum over k of delta[k] * t^k / k! to the accumulator of the channel (to
\* each component of a vector channel), and returns true if and only if t is
\* the effective time of the curve.
C20_EvaluationIsTaylorSum ==
  ( evaluation.kind = "channel" /\ evaluation.done
    /\ Len(DeltasOf(evaluation.curve, evaluation.channel)) <= 12 ) =>
    LET deltas == DeltasOf(evaluation.curve, evaluation.channel)
        t == evaluation.time_delta
    IN /\ evaluation.raised = None
       /\ evaluation.returns
            <=> (t = RatOf(Curves[evaluation.curve].effective_time_seconds))
       /\ IF evaluation.channel \in {"position", "rotation"}
          THEN evaluation.value =
                 [x \in 1..3 |->
                    RatAdd(evaluation.before[x],
                           TaylorSum([k \in 1..Len(deltas) |-> deltas[k][x]],
                                     Len(deltas), t))]
          ELSE evaluation.value =
                 RatAdd(evaluation.before, TaylorSum(deltas, Len(deltas), t))

\* the twelve-term opacity table of c6 has been evaluated at the effective
\* time of the curve, and the call has returned true
C20_Witness ==
  /\ evaluation.kind = "channel"
  /\ evaluation.done
  /\ evaluation.channel = "opacity"
  /\ evaluation.curve = "c6"
  /\ evaluation.time_delta = RatOf(2)
  /\ evaluation.returns
  /\ evaluation.value # evaluation.before

\* ------------------------------------------------------------------- C21
\* C21: serializing an instance delta of any variant and parsing the result
\* terminates and yields a delta of the same variant with the same delta id,
\* target instance id and payload.
C21_DeltaRoundTrip ==
  (evaluation.kind = "json" /\ evaluation.class = "InstanceDelta"
     /\ evaluation.stage = "parsed")
    => /\ evaluation.parsed.raised = None
       /\ evaluation.parsed.value = evaluation.object

\* ------------------------------------------------------------------- C22
\* C22: serializing a Curve, an Instance of any variant or a CurveCompleted or
\* MouseMoved event and parsing the result yields a value equal in every field.
C22_RoundTripIsEqual ==
  (evaluation.kind = "json" /\ evaluation.stage = "parsed"
     /\ evaluation.class \in {"Curve", "Instance", "Event"})
    => /\ evaluation.parsed.raised = None
       /\ evaluation.parsed.value = evaluation.object

\* an image instance with nested curves, inside a parsed MouseMoved event whose
\* timestamp has a microsecond part that needs padding
C22_Witness ==
  /\ evaluation.kind = "json" /\ evaluation.stage = "parsed"
  /\ evaluation.class = "Event"
  /\ evaluation.object.event_type = "MouseMoved"
  /\ evaluation.object.triggered_datetime.microsecond = 5
  /\ Len(evaluation.object.rendered_instance_states) = 2
  /\ evaluation.parsed.raised = None
  /\ evaluation.parsed.value.rendered_instance_states[2].instance.image_uuid = "picture"
  /\ Len(evaluation.parsed.value.rendered_instance_states[2].instance.parallel_curves) = 2

\* ------------------------------------------------------------------- C23
\* the pointer is in the window, away from the position recorded last
PointerMoved ==
  /\ show_base.mouseWatcherNode.hasMouse
  /\ \/ previous_mouse_x # show_base.mouseWatcherNode.mouse_x
     \/ previous_mouse_y # show_base.mouseWatcherNode.mouse_y

\* C23: a run of the mouse task delivers at most one MouseMovedEvent to the
\* registered handler, and it delivers one exactly when the pointer is present
\* at a position other than the one recorded last; a run with an unmoved
\* pointer delivers none and leaves the recorded position as it was.
C23_OneEventPerMovedPoll ==
  [][ (MouseMoveTask /\ "mouse_moved" \in on_event_callable_per_event_type) =>
        /\ Len(handled') = Len(handled) + (IF PointerMoved THEN 1 ELSE 0)
        /\ SubSeq(handled', 1, Len(handled)) = handled
        /\ PointerMoved =>
             /\ handled'[Len(handled')].event_type = "mouse_moved"
             /\ handled'[Len(handled')].mouse_x_delta
                  = show_base.mouseWatcherNode.mouse_x - previous_mouse_x
             /\ handled'[Len(handled')].mouse_y_delta
                  = show_base.mouseWatcherNode.mouse_y - previous_mouse_y
             /\ previous_mouse_x' = show_base.mouseWatcherNode.mouse_x
             /\ previous_mouse_y' = show_base.mouseWatcherNode.mouse_y
        /\ ~PointerMoved =>
             /\ previous_mouse_x' = previous_mouse_x
             /\ previous_mouse_y' = previous_mouse_y
    ]_vars

\* one event was delivered for a move along y only, and a later run of the
\* task found the pointer where it was and delivered nothing
C23_Witness ==
  /\ Len(handled) = 1
  /\ handled[1].event_type = "mouse_moved"
  /\ handled[1].mouse_x_delta = 0
  /\ handled[1].mouse_y_delta = 1
  /\ previous_mouse_time > handled[1].triggered_datetime
  /\ show_base.mouseWatcherNode.hasMouse
  /\ ~PointerMoved

\* ------------------------------------------------------------------- C24
\* a run of the mouse task in which the handler is invoked
IsHandlerCall == MouseMoveTask /\ Len(handled') = Len(handled) + 1

\* the deltas the handler of the last invocation passed to apply_instance_deltas
HandlerDeltas(h) == h[Len(h)].instance_deltas

\* C24: a handler invoked from the thread of the tick may call
\* apply_instance_deltas: the call finds no tick under way and changes neither
\* registry, no bucket and not the removal set, the curves it appends to a
\* registered instance are in that instance's list when the call returns, no
\* step before the next tick takes a curve out of a list, and the next tick's
\* update works on the list as it finds it (it removes from it when one of its
\* curves completes or expires).
C24_HandlerMayApplyDeltas ==
  [][ /\ IsHandlerCall =>
           /\ task.pc = "idle" /\ task'.pc = "idle"
           /\ UNCHANGED <<instance_per_instance_uuid,
                          rendered_instance_per_instance_uuid,
                          rendered_instances_per_event_type,
                          to_remove_rendered_instance, rendered>>
           /\ raised' \in {None, "KeyError", "NotImplementedError"}
           /\ \A k \in 1..Len(HandlerDeltas(handled')) :
                LET d == HandlerDeltas(handled')[k]
                IN (/\ d.instance_delta_type = "append_parallel_curves"
                    /\ d.instance_uuid \in DOMAIN instance_per_instance_uuid)
                     => /\ raised' = None
                        /\ Range(d.parallel_curves)
                             \subseteq Range(parallel_curves'[
                                 instance_per_instance_uuid[d.instance_uuid]])
      /\ ~IsTick =>
           \A o \in InstObjs :
             Range(parallel_curves[o]) \subseteq Range(parallel_curves'[o])
      /\ IsTick =>
           \A id \in DOMAIN rendered_instance_per_instance_uuid :
             (\E c \in Range(ActiveCurvesOf(id)) :
                Completes(c, now') \/ Expires(c, now'))
               => Len(parallel_curves'[RenderedOf(id).instance])
                    < Len(ActiveCurvesOf(id))
    ]_vars

\* the MouseMoved handler appended the zero-duration curve c2 to the rendered
\* instance b, and the next tick's update has found it there and removed it
C24_Witness ==
  /\ Len(handled) = 1
  /\ handled[1].event_type = "mouse_moved"
  /\ Len(handled[1].instance_deltas) = 1
  /\ handled[1].instance_deltas[1].instance_delta_type = "append_parallel_curves"
  /\ handled[1].instance_deltas[1].parallel_curves = <<"c2">>
  /\ "b" \in DOMAIN rendered_instance_per_instance_uuid
  /\ now > handled[1].triggered_datetime
  /\ raised = None
  /\ parallel_curves[instance_per_instance_uuid["b"]] = <<>>

\* ------------------------------------------------------------------- C25
\* C25: while update iterates the curves of an instance, the membership of the
\* instance's active curves does not change (curves are marked in the first
\* loop and removed in the second), and the staging set of marked curves is
\* empty when update returns.
C25_TwoPhaseRemoval ==
  [][ /\ (task.pc = "update" /\ task'.pc = "update") =>
           Range(parallel_curves'[rendered[task.render_instance].instance])
             = Range(parallel_curves[rendered[task.render_instance].instance])
      /\ (task.pc = "update" /\ task'.pc = "for" /\ raised' = None) =>
           rendered'[task.render_instance].to_remove_parallel_curves = {}
    ]_vars

\* ------------------------------------------------------------------- C26
\* what the first loop of update makes of rendered instance r when each of the
\* four scratch values starts from its base value
FromBase(r, list, utc_now) ==
  UpdateCurvesFrom([r EXCEPT !.position = r.initial_position,
                             !.rotation = r.initial_rotation,
                             !.scale = r.initial_scale,
                             !.opacity = r.initial_opacity],
                   list, 1, utc_now)

\* C26: at the end of every update the rotation, scale and opacity scratch
\* values are, as the position scratch is, the base value plus the
\* contributions of the curves evaluated in that update, with nothing carried
\* over from an earlier update.
C26_ScratchRecomputedFromBase ==
  [][ (evaluation.kind = "update" /\ evaluation'.kind = "update"
         /\ evaluation'.updates = evaluation.updates + 1) =>
        LET expected == FromBase(evaluation.self, evaluation.list,
                                 evaluation'.utc_now)
        IN /\ evaluation'.self.position = expected.position
           /\ evaluation'.self.rotation = expected.rotation
           /\ evaluation'.self.scale = expected.scale
           /\ evaluation'.self.opacity = expected.opacity
    ]_vars

\* ------------------------------------------------------------------- C27
\* the contribution of curve c to the position at the end of its window
FinalContribution(c) ==
  try_update_position(c, RatOf(Curves[c].effective_time_seconds),
                      <<RatOf(0), RatOf(0), RatOf(0)>>,
                      <<RatOf(0), RatOf(0), RatOf(0)>>).vector

\* the sum of two vectors
VectorAdd(v, w) == [k \in 1..3 |-> RatAdd(v[k], w[k])]

\* C27: when the one curve of an instance completes in a tick, the position
\* written in that tick is the base before the tick plus the curve's final
\* contribution, that sum is the base afterwards, and with no other curve the
\* position an update of the next tick writes is the position written at the
\* completing tick.
C27_CompletedCurveIsAbsorbed ==
  [][ (IsTick /\ raised' = None) =>
        \A id \in DOMAIN rendered_instance_per_instance_uuid :
          \A c \in Range(ActiveCurvesOf(id)) :
            LET ri == rendered_instance_per_instance_uuid[id]
            IN (/\ Range(ActiveCurvesOf(id)) = {c}
                /\ Completes(c, now')
                /\ ~Curves[c].is_instance_removed_on_curve_completed)
                 => /\ rendered'[ri].node_position
                         = VectorAdd(rendered[ri].initial_position,
                                     FinalContribution(c))
                    /\ rendered'[ri].initial_position = rendered'[ri].node_position
                    /\ update(rendered'[ri],
                              parallel_curves'[rendered[ri].instance],
                              now' + 1).self.node_position
                         = rendered'[ri].node_position
    ]_vars

\* ------------------------------------------------------------------- C29
\* a pop of the two buffers of the rendered instance
IsPop ==
  /\ evaluation.kind = "update" /\ evaluation'.kind = "update"
  /\ Len(evaluation'.popped) = Len(evaluation.popped) + 1

\* C29: pop_completed_curve_uuids returns the buffered ids and empties the
\* buffer, pop_is_active_instance_removed_event returns the flag and resets
\* it, and a second pop with no update in between returns the empty set and
\* false.
C29_PopSemantics ==
  [][ IsPop =>
        LET returned == evaluation'.popped[Len(evaluation'.popped)]
        IN /\ returned.completed_curve_uuids = evaluation.self.completed_curve_uuids
           /\ returned.removed = evaluation.self.is_active_instance_removed_event
           /\ evaluation'.self.completed_curve_uuids = {}
           /\ ~evaluation'.self.is_active_instance_removed_event
           /\ Len(evaluation.popped) > 0 =>
                returned = [completed_curve_uuids |-> {}, removed |-> FALSE]
    ]_vars

\* an update has removed a curve that asks for the removal of the instance;
\* the first pop returned true and the second false
C29_Witness ==
  /\ evaluation.kind = "update"
  /\ evaluation.updates > 0
  /\ Len(evaluation.popped) = 2
  /\ evaluation.popped[1].removed
  /\ ~evaluation.popped[2].removed
  /\ evaluation.popped[2].completed_curve_uuids = {}

\* ------------------------------------------------------------------- C30
\* a call of update
IsUpdate ==
  /\ evaluation.kind = "update" /\ evaluation'.kind = "update"
  /\ evaluation'.updates = evaluation.updates + 1

\* C30: update skips a curve whose start_datetime is later than the time of
\* the update: no base value and no scratch value takes anything from the
\* curve (the position is the base, as update leaves it with no curve), the
\* curve stays in the instance's list, and neither the completion buffer nor
\* the removal flag is set.
C30_UnstartedCurveIsSkipped ==
  [][ (IsUpdate /\ evaluation.list # <<>>
         /\ \A k \in 1..Len(evaluation.list) :
              Curves[evaluation.list[k]].start_datetime > evaluation'.utc_now) =>
        /\ evaluation'.list = evaluation.list
        /\ evaluation'.self.initial_position = evaluation.self.initial_position
        /\ evaluation'.self.initial_rotation = evaluation.self.initial_rotation
        /\ evaluation'.self.initial_scale = evaluation.self.initial_scale
        /\ evaluation'.self.initial_opacity = evaluation.self.initial_opacity
        /\ evaluation'.self.position = evaluation.self.initial_position
        /\ evaluation'.self.node_position = evaluation.self.initial_position
        /\ evaluation'.self.rotation = evaluation.self.rotation
        /\ evaluation'.self.scale = evaluation.self.scale
        /\ evaluation'.self.opacity = evaluation.self.opacity
        /\ evaluation'.self.to_remove_parallel_curves = {}
        /\ evaluation'.self.completed_curve_uuids
             = evaluation.self.completed_curve_uuids
        /\ evaluation'.self.is_active_instance_removed_event
             = evaluation.self.is_active_instance_removed_event
        /\ evaluation'.self.is_active_curve_completed_event
             = evaluation.self.is_active_curve_completed_event
        /\ evaluation'.self.folded = evaluation.self.folded
    ]_vars

\* update has run one second before the start of the zero-duration curve c4,
\* which asks for the removal of the instance: the curve is still in the list
\* and nothing is flagged
C30_Witness ==
  /\ evaluation.kind = "update"
  /\ evaluation.updates = 1
  /\ evaluation.list = <<"c4">>
  /\ Curves["c4"].start_datetime > evaluation.utc_now
  /\ ~evaluation.self.is_active_instance_removed_event
  /\ evaluation.self.position # <<RatOf(0), RatOf(0), RatOf(0)>>

\* ------------------------------------------------------------------ C31
\* the rendered instances the registry holds
Registered(registry) == {registry[id] : id \in DOMAIN registry}

\* the subscription list the claim names for the engine's role
ListOfRole(o) ==
  IF is_client THEN Instances[o].client_event_types
  ELSE Instances[o].renderer_event_types

\* C31: a rendered instance that render_instances constructs is put into the
\* buckets of exactly the event types of its instance's client_event_types on
\* a client engine and of its renderer_event_types on any other engine, and
\* into no other bucket; a tick takes a rendered instance out of buckets of
\* that same list only, and out of all of them when the removal goes through.
C31_BucketsFollowHostRole ==
  [][ \A ri \in DOMAIN rendered' :
        /\ ri \notin DOMAIN rendered =>
             \A t \in EventTypeEnum :
               ri \in rendered_instances_per_event_type'[t]
                 <=> t \in Range(ListOfRole(ri[1]))
        /\ (ri \in DOMAIN rendered /\ IsTick) =>
             /\ \A t \in EventTypeEnum :
                  ( ri \in rendered_instances_per_event_type[t]
                    /\ ri \notin rendered_instances_per_event_type'[t] )
                    => t \in Range(ListOfRole(ri[1]))
             /\ ( raised' = None
                  /\ ri \in Registered(rendered_instance_per_instance_uuid)
                  /\ ri \notin Registered(rendered_instance_per_instance_uuid') )
                  => \A t \in Range(ListOfRole(ri[1])) :
                       ri \notin rendered_instances_per_event_type'[t]
    ]_vars

\* a renderer engine has registered the text i4 under its renderer list, and
\* the tick at two seconds has removed it from the registry and from the
\* bucket of that list, while the model i1 is still in its bucket
C31_Witness ==
  /\ ~is_client
  /\ raised = None
  /\ <<"i4", 1>> \in DOMAIN rendered
  /\ <<"i4", 1>> \notin Registered(rendered_instance_per_instance_uuid)
  /\ <<"i4", 1>> \notin rendered_instances_per_event_type["curve_completed"]
  /\ <<"i1", 1>> \in rendered_instances_per_event_type["curve_completed"]
  /\ <<"i1", 1>> \notin rendered_instances_per_event_type["mouse_moved"]

\* ------------------------------------------------------------------- C32
\* the first n entries of a delta table
FirstTerms(deltas, n) == SubSeq(deltas, 1, Min(n, Len(deltas)))

\* C32: the evaluation of a channel that has more than twelve delta terms
\* raises IndexError when it looks up the factorial of the thirteenth term and
\* returns no value; the accumulator holds the sum of the first twelve terms,
\* which were added in place before the error.
C32_ThirteenthTermRaises ==
  ( evaluation.kind = "channel" /\ evaluation.done
    /\ Len(DeltasOf(evaluation.curve, evaluation.channel)) > 12 ) =>
    LET deltas == DeltasOf(evaluation.curve, evaluation.channel)
        t == evaluation.time_delta
    IN /\ evaluation.raised = "IndexError"
       /\ evaluation.returns = None
       /\ IF evaluation.channel \in {"position", "rotation"}
          THEN evaluation.value =
                 [x \in 1..3 |->
                    RatAdd(evaluation.before[x],
                           TaylorSum([k \in 1..12 |-> deltas[k][x]], 12, t))]
          ELSE evaluation.value =
                 RatAdd(evaluation.before,
                        TaylorSum(FirstTerms(deltas, 12), 12, t))

\* the fourteen-term rotation table of c7 has been evaluated at the effective
\* time of the curve: the call has raised, after it changed the accumulator
C32_Witness ==
  /\ evaluation.kind = "channel"
  /\ evaluation.done
  /\ evaluation.channel = "rotation"
  /\ evaluation.curve = "c7"
  /\ evaluation.time_delta = RatOf(2)
  /\ evaluation.raised = "IndexError"
  /\ evaluation.value # evaluation.before

\* ------------------------------------------------------------------- C33
\* C33: the second loop of RenderedInstance.update never fails: while update
\* is between its first loop and its second, every curve it has marked for
\* removal is a member of the instance's active curves, so that no
\* list.remove raises ValueError, whatever apply_instance_deltas does to the
\* instance from the on_start thread in between.
C33_SecondPassNeverFails ==
  /\ raised # "ValueError"
  /\ task.pc = "update" =>
       rendered[task.render_instance].to_remove_parallel_curves
         \subseteq Range(parallel_curves[rendered[task.render_instance].instance])

\* ------------------------------------------------------------------- C34
\* C34: while the task iterates the rendered-instance registry, no call of
\* render_instances from the on_start thread changes the key set of the
\* registry, and the iteration does not fail, so that every rendered instance
\* registered at the start of the tick is updated once in the tick.
C34_KeySetFixedDuringIteration ==
  [][ /\ task.pc \in {"for", "update"} =>
           DOMAIN rendered_instance_per_instance_uuid'
             = DOMAIN rendered_instance_per_instance_uuid
      /\ raised' # "RuntimeError"
    ]_vars

\* ------------------------------------------------------------------- C35
\* C35: when a call of render_instances raises at an instance of its batch
\* (an unregistered model, font or image id, or a parent without a rendered
\* instance), that instance is afterwards registered neither in the instance
\* registry nor in the rendered-instance registry, and, unless its id was
\* registered before the call, a delta that targets its id raises KeyError.
C35_FailedInstanceIsUnregistered ==
  [][ \A instances \in InstanceBatches :
        ( /\ now' = now /\ parallel_curves' = parallel_curves /\ text' = text
          /\ RenderInstancesOf(instances)
          /\ found_exception'.error # None )
          => LET failed == instances[found_exception'.at]
                 id == Instances[failed].instance_uuid
             IN /\ ~ ( /\ id \in DOMAIN instance_per_instance_uuid'
                       /\ instance_per_instance_uuid'[id] = failed )
                /\ ~ ( /\ id \in DOMAIN rendered_instance_per_instance_uuid'
                       /\ rendered_instance_per_instance_uuid'[id][1] = failed )
                /\ id \notin DOMAIN instance_per_instance_uuid =>
                     \A delta \in Deltas :
                       delta.instance_uuid = id =>
                         ApplyDelta(Engine', delta).raised = "KeyError"
    ]_vars

\* ------------------------------------------------------------------- C36
\* C36: a tick that commits the removal of flagged rendered instances raises
\* nothing and ends with an empty __to_remove_rendered_instance, whatever the
\* subscription list of the instance is, so that no later tick removes the
\* same rendered instance again.
C36_RemovalCommits ==
  [][ IsTick => /\ raised' # "KeyError"
                /\ to_remove_rendered_instance' = {}
    ]_vars

\* ------------------------------------------------------------------- C37
\* C37: in every state, each id of the rendered-instance registry is an id of
\* the instance registry, and the rendered instance stored under the id is
\* bound to the very instance the instance registry stores under it.
C37_RenderedBoundToRegistered ==
  \A id \in DOMAIN rendered_instance_per_instance_uuid :
    /\ id \in DOMAIN instance_per_instance_uuid
    /\ RenderedOf(id).instance = instance_per_instance_uuid[id]

\* ------------------------------------------------------------------- C39
\* the curves that ask for the CurveCompleted event
Triggering ==
  {c \in CurveObjs : Curves[c].is_controller_event_triggered_on_completed}

\* C39: a curve whose is_controller_event_triggered_on_completed is false
\* causes no invocation of the CurveCompleted handler: every event a tick
\* hands to the handler, and every uuid a rendered instance buffers for it,
\* is the uuid of a curve that asks for the event, and a tick raises the
\* completed-event flag of a rendered instance only if it removed such a
\* curve from the instance's list.
C39_UnflaggedCurveIsSilent ==
  [][ IsTick =>
        /\ \A k \in (Len(handled) + 1)..Len(handled') :
             \E c \in Triggering : Curves[c].curve_uuid = handled'[k].curve_uuid
        /\ \A ri \in DOMAIN rendered :
             /\ \A u \in rendered'[ri].completed_curve_uuids :
                  \E c \in Triggering : Curves[c].curve_uuid = u
             /\ ( rendered'[ri].is_active_curve_completed_event
                  /\ ~rendered[ri].is_active_curve_completed_event )
                  => \E c \in Triggering :
                       Occurrences(parallel_curves'[ri[1]], c)
                         < Occurrences(parallel_curves[ri[1]], c)
    ]_vars

\* with a CurveCompleted handler registered, the text i4 was given the
\* zero-duration curve c4 in place of c3 and the tick at one second has
\* removed c4 and, with it, the instance; neither curve asks for the event,
\* and the handler has not been invoked
C39_Witness ==
  /\ "curve_completed" \in on_event_callable_per_event_type
  /\ raised = None
  /\ now = 1
  /\ <<"i4", 1>> \in DOMAIN rendered
  /\ <<"i4", 1>> \notin Registered(rendered_instance_per_instance_uuid)
  /\ parallel_curves["i4"] = <<>>
  /\ {"c3", "c4"} \cap Triggering = {}
  /\ handled = <<>>

====
